---- MODULE Spec2Model ----
(***************************************************************************)
(* Verification model of nozem: the build graph and its target selection,  *)
(* the BuildQueue scheduler, and the artifact caches used by the hermetic  *)
(* package build.                                                          *)
(***************************************************************************)
EXTENDS Integers, Sequences, FiniteSets, TLC

(* ------------------------------ bounds --------------------------------- *)
NumNodes == 4
MaxTargets == 2
MaxEdges == 3
MaxConcurrency == 2
NumPackages == 1
MaxCalls == 2
NumHashes == 2
MaxRuns == 2
MaxCallers == 2
MaxStores == 5
MaxTreeNodes == 5
NumNames == 3
NumVersions == 2
MaxHashables == 4
NumKeys == 2
NumLeafHashes == 2
NumDirs == 3
MaxEnvEntries == 2
MaxSandboxes == 2
MaxPoolStores == 4
NumCacheHashes == 3
MaxTarSize == 2
NumBuilds == 3
NumInstalls == 3

Nodes == 1..NumNodes
Packages == 1..NumPackages
Hashes == 1..NumHashes
CallIds == 1..MaxCalls

VARIABLES
  (* build graph and target selection *)
  graph,        \* BuildGraph.graph: [nodes: Seq(Nodes), edges: SUBSET (Nodes \X Nodes)]
  targets,      \* BuildOptions.targets: the requested identifiers (<<>>: the whole graph)
  downstream,   \* BuildOptions.downstream
  (* BuildQueue *)
  target,       \* BuildQueue.graph: the graph handed to the queue
  concurrency,  \* BuildQueue.concurrency
  bail,         \* BuildQueue.bail
  enqueued,     \* BuildQueue.enqueued
  buildable,    \* BuildQueue.buildable
  failed,       \* BuildQueue.failed
  finished,     \* BuildQueue._finished
  active,       \* BuildQueue._active
  pruned,       \* BuildQueue._pruned
  failedFlag,   \* BuildQueue._failed
  built,        \* BuildNode._output !== undefined, per node
  cb,           \* position of the callback started for each node
  outcome,      \* the promise returned by execute(): pending / resolved / rejected
  rejectError,  \* the node whose error execute() rejected with (0: none)
  failLog,      \* the nodes whose callback rejected, in order
  exitCode,     \* process.exitCode
  pc,           \* position of the build command
  (* NozemNpmPackageBuild, per package, and the workspace's artifact cache *)
  artifactCache,  \* Workspace.artifactCache: "null" (NullCache) or "directory"
  bpc,            \* position of the package's build()
  inplace,        \* result of inPlaceCacheLookup(): none / ok / missing / mismatch
  cached,         \* source of the cached artifact found by cacheLookup()
  buildResult,    \* the promise returned by build(): pending / resolved / rejected
  buildError,     \* what made build() reject ("none": nothing did)
  sidecar,        \* .nzm-buildcache written by this build()
  storeP,         \* the promise returned by DirectoryCache.queueForStoring
  inputHash,      \* hashOf(this.merkle): the package's current input hash
  sidecarFile,    \* what .nzm-buildcache holds on disk
  disk,           \* the artifact files in the package directory
  run,            \* number of the process run
  unchanged,      \* the previous run built this package and nothing was edited since
  consulted,      \* the cache tiers consulted by cacheLookup(), in order
  callers,        \* the promise each build() call of this run was handed, in order
  lookups,        \* number of times the body of cacheLookup() was started
  doBuilds,       \* number of times doBuild() was started
  executed,       \* the commands doBuild() ran in the sandbox, with their results
  (* S3Cache *)
  _enabled,       \* S3Cache._enabled
  _writeEnabled,  \* S3Cache._writeEnabled
  scan,           \* startS3IndexScan(): running / done / failed
  calls,          \* the lookup() and queueForStoring() calls in progress
  (* DirectoryCache.cleaning: OneAtATime *)
  maxSizeMB,      \* DirectoryCacheOptions.maxSizeMB is set
  _running,       \* OneAtATime._running
  _queued,        \* OneAtATime._queued
  started,        \* number of cleanup jobs started
  ended,          \* number of cleanup jobs that have ended
  arrived,        \* tryRun() calls made since the running job started
  requested,      \* tryRun() calls made so far
  made,           \* DirectoryCache.queueForStoring() calls made so far
  poolQueued,     \* PromisePool._queue.length
  poolActive,     \* PromisePool.active
  (* hoistDependencies *)
  packageTree,          \* the objects of the tree: node -> [version, defined, dependencies]
  originalDependencies, \* Map<DependencyNode, string[]>, as node -> set of <<name, version>>
  didChange,            \* the flag of the do-while loop
  hoistPc,              \* the statement hoistDependencies is at
  passes,               \* how many times the body of the do-while loop has run
  naiveTree,            \* the tree as it was handed to hoistDependencies
  (* MerkleTree *)
  treeA,          \* the hashable that is serialized; compare's a
  treeB,          \* compare's b
  maxDepth,       \* serialize's maxDepth: <<>> when not given, else <<d>>
  serialized,     \* what serialize returned
  reconstructed,  \* what deserialize returned
  comparison,     \* what compare returned
  merklePc,       \* the call that was made last
  (* Workspace: the package builds and the dependency inputs *)
  packageJsons,      \* the package.json found in each package directory
  packageBuildCache, \* Workspace.packageBuildCache
  objectCache,        \* objectCache of NpmDependencyInput.fromDirectory
  (* the environment of a package build *)
  envs,           \* NozemNpmPackageBuild.env of two packages, as insertion-ordered entries
  envHash,        \* hash of the env element of each package's merkle tree
  commandEnv,      \* the environment each build command was run with
  (* BuildDirectory.with *)
  tmpdir,          \* the paths that exist under os.tmpdir()
  mkdtemps,       \* number of directories fs.mkdtemp has created
  withPc,          \* position of each call of BuildDirectory.with
  withDir,         \* be.directory of each call
  fnOutcome,       \* how fn(be) settled in each call
  withOutcome,     \* how the promise returned by each call settled
  warnings,        \* the directories log.warning reported as not cleaned up
  (* the .nzm-buildcache file and its writer *)
  cacheFile,       \* the bytes of .nzm-buildcache on disk, <<>> when the file does not exist
  writeFile,       \* the fs.writeFile call in progress, <<>> when there is none
  lastRead,        \* what the last readJsonIfExists of the file gave
  process,         \* number of the nozem process that is running
  (* The shared I/O pool: PROMISE_POOL and the file hash cache *)
  _queue,          \* every thunk handed to PROMISE_POOL.queue, in order, with where it is
  hashCache,       \* fileHash's hashCache, the promise kept for each file
  (* The local cache directory: DirectoryCache and its cleaner *)
  dataFile,        \* the tarball <hash>.tar.gz of each hash: absent, partial or complete
  indexFile,       \* the index <hash>.json of each hash: absent or complete
  mtimeMs,         \* modification time of each tarball
  fileSize,        \* size of each tarball, in units of 10^6 bytes
  maxSizeBytes,    \* options.maxSizeMB * 1_000_000, in the same units
  found,           \* what lookup() and fetch() of each hash have given so far
  storing,         \* where the store thunk of each hash is
  job,             \* the cleanup job that is running: its list of tarballs and its position
  lastJob,         \* what the cleanup job that ended last listed, deleted and how it ended
  thrown,          \* number of cleanup jobs that threw
  (* Builds of monorepo packages that depend on each other *)
  depInputs,       \* the hermetic monorepo dependencies among the inputs of each package
  cacheHit,        \* whether cacheLookup() of each package finds an artifact
  buildAt,         \* where build() of each package is
  realized,        \* how each package's artifact came to be there: fetched or built
  (* Executables linked into the bin directory of a sandbox *)
  binDir,          \* the symlinks in bin/: the target of each name, 0 when there is none
  binName,         \* the name under which each install links its executable
  installAt,       \* where each installExecutable call is
  installError,    \* the error code each installExecutable call failed with
  (* The local mirror of the remote index *)
  localIndexFile,  \* the mirrored index file of each locator: <<>> when there is none, else <<bytes>>
  mirror,          \* where the index scan is with each listed index file
  indexLookup     \* the lookups of the remote tier that read the mirror

gvars == <<graph, targets, downstream>>
qvars == <<target, concurrency, bail, enqueued, buildable, failed, finished,
           active, pruned, failedFlag, built, cb, outcome, rejectError, failLog>>
diskvars == <<inputHash, sidecarFile, disk>>
kvars == <<artifactCache, bpc, inplace, cached, buildResult, buildError,
           sidecar, storeP, diskvars, run, unchanged, consulted, callers,
           lookups, doBuilds, executed>>
svars == <<_enabled, _writeEnabled, scan, calls>>
ovars == <<maxSizeMB, _running, _queued, started, ended, arrived, requested,
           made, poolQueued, poolActive>>
hvars == <<packageTree, originalDependencies, didChange, hoistPc, passes, naiveTree>>
mvars == <<treeA, treeB, maxDepth, serialized, reconstructed, comparison, merklePc>>
wvars == <<packageJsons, packageBuildCache, objectCache>>
evars == <<envs, envHash, commandEnv>>
bvars == <<tmpdir, mkdtemps, withPc, withDir, fnOutcome, withOutcome, warnings>>
fvars == <<cacheFile, writeFile, lastRead, process>>
iovars == <<_queue, hashCache>>
dvars == <<dataFile, indexFile, mtimeMs, fileSize, maxSizeBytes, found, storing, job, lastJob, thrown>>
nvars == <<depInputs, cacheHit, buildAt, realized>>
lvars == <<binDir, binName, installAt, installError>>
xvars == <<localIndexFile, mirror, indexLookup>>
uvars == <<ovars, hvars, mvars, wvars, evars, bvars, fvars, iovars, dvars, nvars, lvars, xvars>>
cvars == <<kvars, svars, uvars>>
vars == <<gvars, qvars, exitCode, pc, cvars>>

(* ------------------------------ helpers -------------------------------- *)
Range(s) == {s[i] : i \in DOMAIN s}

Min(S) == CHOOSE x \in S : \A y \in S : x <= y

RECURSIVE SortedSeq(_)
SortedSeq(S) == IF S = {} THEN <<>> ELSE <<Min(S)>> \o SortedSeq(S \ {Min(S)})

RECURSIVE Dedup(_, _)
Dedup(s, acc) ==
  IF s = <<>> THEN acc
  ELSE IF Head(s) \in Range(acc) THEN Dedup(Tail(s), acc)
       ELSE Dedup(Tail(s), Append(acc, Head(s)))

(* ------------------------------- Graph --------------------------------- *)
(* An edge <<a, b>> runs from a dependency a to its dependent b.           *)
(* Edges are added unit by unit, so the adjacency lists are in unit order. *)
outgoing(g, x) == SortedSeq({e[2] : e \in {f \in g.edges : f[1] = x}})
incoming(g, x) == SortedSeq({e[1] : e \in {f \in g.edges : f[2] = x}})

successors(g, x) == outgoing(g, x)

RECURSIVE closure(_, _, _, _)
closure(g, toInspect, ret, out) ==
  IF toInspect = <<>> THEN ret
  ELSE LET node == Head(toInspect)
           rest == Tail(toInspect)
       IN IF node \in Range(ret) THEN closure(g, rest, ret, out)
          ELSE closure(g,
                       rest \o (IF out THEN outgoing(g, node) ELSE incoming(g, node)),
                       Append(ret, node), out)

reachableFrom(g, ns) == closure(g, ns, <<>>, TRUE)
feedsInto(g, ns) == closure(g, ns, <<>>, FALSE)

subgraph(g, ns) ==
  [nodes |-> Dedup(ns, <<>>),
   edges |-> {e \in g.edges : e[1] \in Range(ns) /\ e[2] \in Range(ns)}]

(* Mutation: the downstream closure is taken whatever the flag says. *)
selectTargets_AlwaysDownstream(g, ts, down) ==
  subgraph(g, feedsInto(g, ts) \o reachableFrom(g, ts))

selectTargets(g, ts, down) ==
  subgraph(g, feedsInto(g, ts) \o (IF down THEN reachableFrom(g, ts) ELSE <<>>))

(* ----------------------------- BuildNode ------------------------------- *)
(* The dependencies of a node are those of its unit definition, whether or *)
(* not the producing node is part of the graph being built.                *)
dependencies(n) == {e[1] : e \in {f \in graph.edges : f[2] = n}}

(* Mutation: `some` where the code says `every`. *)
isBuildable_Some(n, blt) ==
  dependencies(n) = {} \/ \E d \in dependencies(n) : blt[d]

isBuildable(n, blt) == \A d \in dependencies(n) : blt[d]

(* ----------------------------- BuildQueue ------------------------------ *)
(* Mutation: maybeEnqueue without the `enqueued` test. *)
RECURSIVE maybeEnqueue_Again(_, _, _)
maybeEnqueue_Again(ns, q, blt) ==
  IF ns = <<>> THEN q
  ELSE LET node == Head(ns)
       IN IF isBuildable(node, blt)
          THEN maybeEnqueue_Again(Tail(ns),
                                  [q EXCEPT !.enqueued = @ \cup {node},
                                            !.buildable = Append(@, node)], blt)
          ELSE maybeEnqueue_Again(Tail(ns), q, blt)

RECURSIVE maybeEnqueue(_, _, _)
maybeEnqueue(ns, q, blt) ==
  IF ns = <<>> THEN q
  ELSE LET node == Head(ns)
       IN IF isBuildable(node, blt) /\ node \notin q.enqueued
          THEN maybeEnqueue(Tail(ns),
                            [q EXCEPT !.enqueued = @ \cup {node},
                                      !.buildable = Append(@, node)], blt)
          ELSE maybeEnqueue(Tail(ns), q, blt)

(* Mutation: a finished node makes nothing new buildable. *)
enqueueBuildableSuccessors_None(node, q, blt) == q

enqueueBuildableSuccessors(node, q, blt) ==
  maybeEnqueue(successors(target, node), q, blt)

(* Mutation: the loop admits one task too many (<= for <). *)
RECURSIVE launchLoop_OffByOne(_)
launchLoop_OffByOne(q) ==
  IF q.active <= concurrency /\ q.buildable # <<>>
  THEN launchLoop_OffByOne([q EXCEPT !.buildable = Tail(@),
                                     !.active = @ + 1,
                                     !.cb[Head(q.buildable)] = "running"])
  ELSE q

RECURSIVE launchLoop(_)
launchLoop(q) ==
  IF q.active < concurrency /\ q.buildable # <<>>
  THEN launchLoop([q EXCEPT !.buildable = Tail(@),
                            !.active = @ + 1,
                            !.cb[Head(q.buildable)] = "running"])
  ELSE q

(* Mutation: allFinished() returns without calling ok(). *)
allFinished_NoOk(q) == q

allFinished(q) ==
  IF q.failedFlag THEN q ELSE [q EXCEPT !.outcome = "resolved"]

(* Mutation: launchMore without the `_failed` early return. *)
launchMore_IgnoreFailed(q) ==
  launchLoop(IF q.buildable = <<>> /\ q.active = 0 THEN allFinished(q) ELSE q)

launchMore(q) ==
  IF q.failedFlag THEN q
  ELSE launchLoop(IF q.buildable = <<>> /\ q.active = 0 THEN allFinished(q) ELSE q)

finishedNode(node, q, blt) ==
  launchMore(enqueueBuildableSuccessors(node,
               [q EXCEPT !.active = @ - 1, !.finished = @ + 1], blt))

(* Mutation: continue mode records the failure but never reports the node *)
(* as finished.                                                           *)
handleFailure_NoFinish(node, q, blt) ==
  IF bail
  THEN [q EXCEPT !.failedFlag = TRUE,
                 !.outcome = IF @ = "pending" THEN "rejected" ELSE @,
                 !.rejectError = IF q.outcome = "pending" THEN node ELSE @]
  ELSE LET prunables == {n \in Range(reachableFrom(target, <<node>>)) : n \notin q.enqueued}
       IN [q EXCEPT !.failed = @ \cup {node},
                    !.pruned = @ + Cardinality(prunables),
                    !.enqueued = @ \cup prunables]

(* Mutation: bail mode releases the failed task's slot. *)
handleFailure_ReleaseSlot(node, q, blt) ==
  IF bail
  THEN [q EXCEPT !.failedFlag = TRUE,
                 !.active = @ - 1,
                 !.outcome = IF @ = "pending" THEN "rejected" ELSE @,
                 !.rejectError = IF q.outcome = "pending" THEN node ELSE @]
  ELSE LET prunables == {n \in Range(reachableFrom(target, <<node>>)) : n \notin q.enqueued}
       IN finishedNode(node,
                       [q EXCEPT !.failed = @ \cup {node},
                                 !.pruned = @ + Cardinality(prunables),
                                 !.enqueued = @ \cup prunables], blt)

handleFailure(node, q, blt) ==
  IF bail
  THEN [q EXCEPT !.failedFlag = TRUE,
                 !.outcome = IF @ = "pending" THEN "rejected" ELSE @,
                 !.rejectError = IF q.outcome = "pending" THEN node ELSE @]
  ELSE LET prunables == {n \in Range(reachableFrom(target, <<node>>)) : n \notin q.enqueued}
       IN finishedNode(node,
                       [q EXCEPT !.failed = @ \cup {node},
                                 !.pruned = @ + Cardinality(prunables),
                                 !.enqueued = @ \cup prunables], blt)

(* The queue's fields as one record, and back. *)
Q == [enqueued |-> enqueued, buildable |-> buildable, failed |-> failed,
      finished |-> finished, active |-> active, pruned |-> pruned,
      failedFlag |-> failedFlag, cb |-> cb, outcome |-> outcome,
      rejectError |-> rejectError]

SetQ(q) ==
  /\ enqueued' = q.enqueued
  /\ buildable' = q.buildable
  /\ failed' = q.failed
  /\ finished' = q.finished
  /\ active' = q.active
  /\ pruned' = q.pruned
  /\ failedFlag' = q.failedFlag
  /\ cb' = q.cb
  /\ outcome' = q.outcome
  /\ rejectError' = q.rejectError

EmptyQ == [enqueued |-> {}, buildable |-> <<>>, failed |-> {},
           finished |-> 0, active |-> 0, pruned |-> 0,
           failedFlag |-> FALSE, cb |-> [n \in Nodes |-> "none"],
           outcome |-> "pending", rejectError |-> 0]

(* ------------------------- inputs of a command ------------------------- *)
Graphs == {[nodes |-> SortedSeq(Nodes), edges |-> E] :
             E \in {F \in SUBSET {e \in Nodes \X Nodes : e[1] < e[2]} :
                     Cardinality(F) <= MaxEdges}}

(* Requested identifiers: up to MaxTargets distinct nodes, named in unit order. *)
TargetLists == {SortedSeq(S) : S \in {T \in SUBSET Nodes :
                                        T # {} /\ Cardinality(T) <= MaxTargets}}

(* ------------------------- objects as constructed --------------------- *)
(* A NozemNpmPackageBuild on which build() has not been called. *)
PackagesIdle ==
  /\ bpc = [p \in Packages |-> "idle"]
  /\ inplace = [p \in Packages |-> "none"]
  /\ cached = [p \in Packages |-> "none"]
  /\ buildResult = [p \in Packages |-> "pending"]
  /\ buildError = [p \in Packages |-> "none"]
  /\ sidecar = [p \in Packages |-> FALSE]
  /\ storeP = [p \in Packages |-> "none"]
  /\ consulted = [p \in Packages |-> <<>>]
  /\ callers = [p \in Packages |-> <<>>]
  /\ lookups = [p \in Packages |-> 0]
  /\ doBuilds = [p \in Packages |-> 0]
  /\ executed = [p \in Packages |-> <<>>]

(* No .nzm-buildcache in the package directory. *)
NoSidecar == [inputHash |-> 0, artifactHash |-> 0]

(* The artifact files of a package directory: none, those built from the   *)
(* inputs with hash h (h itself), or files edited after they were built.   *)
Absent == 0
Edited == NumHashes + 1

(* A clean checkout in its first process run: no sidecar, nothing built. *)
CleanCheckout ==
  /\ inputHash = [p \in Packages |-> 1]
  /\ sidecarFile = [p \in Packages |-> NoSidecar]
  /\ disk = [p \in Packages |-> Absent]
  /\ run = 1
  /\ unchanged = [p \in Packages |-> FALSE]

(* No call of the S3Cache in progress in this slot. *)
NoCall == [op |-> "none", at |-> "done", result |-> "none",
           enabledAtCall |-> TRUE, writeEnabledAtCall |-> TRUE,
           consulted |-> FALSE, contacted |-> FALSE]

(* new S3Cache(bucket, region): both breakers closed, the index scan started. *)
S3Constructed ==
  /\ _enabled = TRUE
  /\ _writeEnabled = TRUE
  /\ scan = "running"
  /\ calls = [c \in CallIds |-> NoCall]

(* new DirectoryCache(directory, options): no cleanup asked for yet. *)
CleaningIdle ==
  /\ _running = FALSE
  /\ _queued = FALSE
  /\ started = 0 /\ ended = 0 /\ arrived = 0 /\ requested = 0
  /\ made = 0 /\ poolQueued = 0 /\ poolActive = 0

(* No tree is being hoisted. *)
HoistIdle ==
  /\ packageTree = <<>>
  /\ originalDependencies = <<>>
  /\ didChange = FALSE
  /\ hoistPc = "idle"
  /\ passes = 0
  /\ naiveTree = <<>>

(* No hashable is being serialized or compared. *)
Nothing == <<>>

MerkleIdle ==
  /\ treeA = Nothing
  /\ treeB = Nothing
  /\ maxDepth = <<>>
  /\ serialized = Nothing
  /\ reconstructed = Nothing
  /\ comparison = Nothing
  /\ merklePc = "idle"

(* No workspace has been scanned for packages. *)
WorkspaceIdle ==
  /\ packageJsons = <<>>
  /\ packageBuildCache = <<>>
  /\ objectCache = <<>>

(* the environment of a package build: nothing has happened. *)
EnvironmentIdle ==
  /\ envs = <<>>
  /\ envHash = <<>>
  /\ commandEnv = <<>>

(* BuildDirectory.with: nothing has happened. *)
SandboxesIdle ==
  /\ tmpdir = <<>>
  /\ mkdtemps = <<>>
  /\ withPc = <<>>
  /\ withDir = <<>>
  /\ fnOutcome = <<>>
  /\ withOutcome = <<>>
  /\ warnings = <<>>

(* the .nzm-buildcache file and its writer: nothing has happened. *)
SidecarIdle ==
  /\ cacheFile = <<>>
  /\ writeFile = <<>>
  /\ lastRead = <<>>
  /\ process = <<>>

(* The shared I/O pool: PROMISE_POOL and the file hash cache: nothing has happened. *)
PoolIdle ==
  /\ _queue = <<>>
  /\ hashCache = <<>>

(* The local cache directory: DirectoryCache and its cleaner: nothing has happened. *)
DirectoryIdle ==
  /\ dataFile = <<>>
  /\ indexFile = <<>>
  /\ mtimeMs = <<>>
  /\ fileSize = <<>>
  /\ maxSizeBytes = <<>>
  /\ found = <<>>
  /\ storing = <<>>
  /\ job = <<>>
  /\ lastJob = <<>>
  /\ thrown = <<>>

(* Builds of monorepo packages that depend on each other: nothing has happened. *)
DependenciesIdle ==
  /\ depInputs = <<>>
  /\ cacheHit = <<>>
  /\ buildAt = <<>>
  /\ realized = <<>>

(* Executables linked into the bin directory of a sandbox: nothing has happened. *)
BinLinksIdle ==
  /\ binDir = <<>>
  /\ binName = <<>>
  /\ installAt = <<>>
  /\ installError = <<>>

(* The local mirror of the remote index: nothing has happened. *)
MirrorIdle ==
  /\ localIndexFile = <<>>
  /\ mirror = <<>>
  /\ indexLookup = <<>>

UtilitiesIdle ==
  /\ MirrorIdle
  /\ BinLinksIdle
  /\ DependenciesIdle
  /\ DirectoryIdle
  /\ PoolIdle
  /\ SidecarIdle
  /\ SandboxesIdle
  /\ EnvironmentIdle
  /\ HoistIdle
  /\ WorkspaceIdle
  /\ MerkleIdle
  /\ maxSizeMB = TRUE
  /\ CleaningIdle

(* --------------------------- the build command ------------------------- *)
NoGraph == [nodes |-> <<>>, edges |-> {}]

(* build(options) is entered: nozem.json is loaded, nothing is built yet. *)
Init ==
  /\ graph \in Graphs
  /\ targets \in TargetLists \cup {<<>>}
  /\ downstream \in BOOLEAN
  /\ concurrency \in 1..MaxConcurrency
  /\ bail \in BOOLEAN
  /\ target = NoGraph
  /\ built = [n \in Nodes |-> FALSE]
  /\ enqueued = {} /\ buildable = <<>> /\ failed = {}
  /\ finished = 0 /\ active = 0 /\ pruned = 0 /\ failedFlag = FALSE
  /\ cb = [n \in Nodes |-> "none"]
  /\ outcome = "pending" /\ rejectError = 0
  /\ failLog = <<>>
  /\ exitCode = 0
  /\ pc = "start"
  /\ artifactCache = "null"
  /\ PackagesIdle
  /\ CleanCheckout
  /\ S3Constructed
  /\ UtilitiesIdle

(* The target graph is chosen and `new BuildQueue(targetGraph, ...)` runs: *)
(* every node that is buildable at once is enqueued, in graph order.       *)
Construct ==
  /\ pc = "start"
  /\ LET tg == IF targets = <<>> THEN graph
               ELSE selectTargets(graph, targets, downstream)
         q == maybeEnqueue(tg.nodes, EmptyQ, built)
     IN /\ q.buildable # <<>>
        /\ target' = tg
        /\ SetQ(q)
  /\ pc' = "constructed"
  /\ UNCHANGED <<cvars, gvars, concurrency, bail, built, failLog, exitCode>>

(* queue.execute(cb): the first launchMore(). *)
Execute ==
  /\ pc = "constructed"
  /\ pc' = "executing"
  /\ SetQ(launchMore(Q))
  /\ UNCHANGED <<cvars, gvars, target, concurrency, bail, built, failLog, exitCode>>

(* The callback of node n obtains its output: served from the workspace    *)
(* cache (useOutput) or built (BuildNode.build sets _output as its last    *)
(* fallible step). The queue has not been told yet.                        *)
OutputSet(n) ==
  /\ cb[n] = "running"
  /\ built' = [built EXCEPT ![n] = TRUE]
  /\ cb' = [cb EXCEPT ![n] = "fulfilled"]
  /\ UNCHANGED <<cvars, gvars, target, concurrency, bail, enqueued, buildable, failed,
                 finished, active, pruned, failedFlag, outcome, rejectError,
                 failLog, exitCode, pc>>

(* cb(node).then(_ => finishedNode(node)) *)
Resolve(n) ==
  /\ cb[n] = "fulfilled"
  /\ SetQ(finishedNode(n, [Q EXCEPT !.cb[n] = "finished"], built))
  /\ UNCHANGED <<cvars, gvars, target, concurrency, bail, built, failLog, exitCode, pc>>

(* cb(node) rejects: .catch(e => handleFailure(node, e)) *)
Reject(n) ==
  /\ cb[n] = "running"
  /\ SetQ(handleFailure(n, [Q EXCEPT !.cb[n] = "failed"], built))
  /\ failLog' = Append(failLog, n)
  /\ UNCHANGED <<cvars, gvars, target, concurrency, bail, built, exitCode, pc>>

(* `await queue.execute(...)` returns or throws into main(); a rejection   *)
(* reaches main().catch, which sets process.exitCode = 1.                  *)
Settle ==
  /\ pc = "executing"
  /\ outcome # "pending"
  /\ exitCode' = IF outcome = "rejected" THEN 1 ELSE exitCode
  /\ pc' = "settled"
  /\ UNCHANGED <<cvars, gvars, qvars>>

InFlight == {n \in Nodes : cb[n] \in {"running", "fulfilled"}}

(* The process ends when nothing is left on the event loop. *)
Exit ==
  /\ pc = "settled"
  /\ InFlight = {}
  /\ pc' = "exited"
  /\ UNCHANGED <<cvars, gvars, qvars, exitCode>>

Next ==
  \/ Construct
  \/ Execute
  \/ \E n \in Nodes : OutputSet(n)
  \/ \E n \in Nodes : Resolve(n)
  \/ \E n \in Nodes : Reject(n)
  \/ Settle
  \/ Exit

Spec == Init /\ [][Next]_vars

(* ------------------------ vocabulary of the claims --------------------- *)
(* Pairs <<a, b>> such that b transitively depends on a, by squaring.      *)
RECURSIVE TransitiveClosure(_)
TransitiveClosure(E) ==
  LET E2 == E \cup {<<p[1][1], p[2][2]>> : p \in {r \in E \X E : r[1][2] = r[2][1]}}
  IN IF E2 = E THEN E ELSE TransitiveClosure(E2)

DependsOn(n, a) == <<a, n>> \in TransitiveClosure(graph.edges)
Ancestors(S) == {a \in Nodes : \E n \in S : DependsOn(n, a)}
Descendants(S) == {d \in Nodes : \E n \in S : DependsOn(d, n)}
TargetNodes == Range(target.nodes)
Started(n) == cb[n] # "none"
Constructed == pc # "start"
Executing == pc \notin {"start", "constructed"}
AllDependenciesSelected(n) == Ancestors({n}) \subseteq TargetNodes
FailedOrAffected(n) == \E f \in failed : f = n \/ DependsOn(n, f)

(* C1: a node's callback is started only when every node it depends on has *)
(* obtained its output (built or served from cache) in a callback that can *)
(* no longer fail, and two nodes joined by a dependency path never run at  *)
(* the same time.                                                          *)
C1_DependenciesFirst ==
  /\ [][\A n \in Nodes : (~Started(n) /\ Started(n)') =>
          \A d \in dependencies(n) : built[d] /\ cb[d] \in {"fulfilled", "finished"}]_vars
  /\ [](\A a, b \in Nodes :
          (cb[a] = "running" /\ cb[b] = "running") => ~DependsOn(b, a))

C1_Witness ==
  /\ \E n \in Nodes : Started(n) /\ dependencies(n) # {}
  /\ \E a, b \in Nodes : a # b /\ cb[a] = "running" /\ cb[b] = "running"

(* C2 (as claimed): in continue mode no node reachable from a failed node  *)
(* is ever started, and once the run is over every node that does not     *)
(* depend on a failed node has been built.                                 *)
C2_ContinueBuildsAllUnaffected ==
  (~bail /\ failed # {}) =>
    /\ \A n \in TargetNodes : (\E f \in failed : DependsOn(n, f)) => ~Started(n)
    /\ outcome = "resolved" =>
         \A n \in TargetNodes : (built[n] \/ FailedOrAffected(n))

(* C2 (amended): in continue mode no node reachable from a failed node is  *)
(* ever started, and the queue never goes idle before it has resolved and  *)
(* has built every node of its graph whose transitive dependencies all     *)
(* belong to that graph and none of which failed.                          *)
C2_ContinueBuildsAllSelected ==
  ~bail =>
    /\ \A n \in TargetNodes : (\E f \in failed : DependsOn(n, f)) => ~Started(n)
    /\ (Executing /\ InFlight = {}) =>
         /\ outcome = "resolved"
         /\ \A n \in TargetNodes :
              AllDependenciesSelected(n) => (built[n] \/ FailedOrAffected(n))

C2_Witness ==
  /\ ~bail /\ outcome = "resolved" /\ pruned > 0
  /\ \E f \in failed, n \in TargetNodes : DependsOn(n, f) /\ ~Started(n)
  /\ \E n \in TargetNodes : built[n] /\ cb[n] = "finished" /\ dependencies(n) # {}

(* C3: in bail mode the first failure rejects execute() with that error,   *)
(* and from the failure on no callback is started, for queued and for      *)
(* downstream nodes alike.                                                 *)
C3_BailStopsLaunching ==
  /\ []((bail /\ failLog # <<>>) =>
          (outcome = "rejected" /\ rejectError = Head(failLog)))
  /\ [][(bail /\ failLog' # <<>>) =>
          \A n \in Nodes : ~Started(n) => ~Started(n)']_vars

C3_Witness ==
  /\ bail /\ outcome = "rejected" /\ buildable # <<>>
  /\ \E n \in Nodes : cb[n] = "finished"
  /\ \E n \in TargetNodes : ~Started(n) /\ n \notin enqueued

(* C4: a continue-mode run in which a node failed exits with code 1.       *)
C4_ContinueFailureExitsNonZero ==
  (pc = "exited" /\ ~bail /\ failed # {}) => exitCode = 1

(* C5 (as claimed): in bail mode execute() rejects only once no task is    *)
(* active any more.                                                        *)
C5_RejectsWhenIdle ==
  [][(bail /\ outcome = "pending" /\ outcome' = "rejected") =>
       (active' = 0 \/ InFlight' = {})]_vars

(* C5 (amended): in bail mode execute() rejects in the very step of the    *)
(* first failure, leaving the other in-flight tasks untouched and still    *)
(* counted in active together with the failed ones; after the failure the  *)
(* in-flight tasks can still run to completion, and the process does not   *)
(* end before they have.                                                   *)
C5_RejectsAtOnceTasksComplete ==
  /\ [][(bail /\ Len(failLog') > Len(failLog)) =>
          /\ outcome' = "rejected"
          /\ active' = active
          /\ InFlight' = InFlight \ {failLog'[Len(failLog')]}
          /\ \A n \in InFlight' : cb'[n] = cb[n]]_vars
  /\ [](bail => /\ active = Cardinality(InFlight) + Len(failLog)
                /\ (failLog # <<>> /\ pc # "exited") =>
                     \A n \in InFlight : ENABLED (OutputSet(n) \/ Resolve(n))
                /\ pc = "exited" => InFlight = {})

C5_Witness ==
  /\ bail /\ outcome = "rejected" /\ active > Len(failLog)
  /\ \E n \in InFlight : cb[n] = "running"

(* C6: in both modes the active counter, and the number of callbacks       *)
(* started and not yet settled, stay between 0 and the concurrency.        *)
C6_ActiveBounded ==
  /\ active \in 0..concurrency
  /\ Cardinality(InFlight) <= active

C6_Witness ==
  /\ active = concurrency /\ Cardinality(InFlight) = concurrency
  /\ concurrency > 1 /\ buildable # <<>>

(* C7: selectTargets returns exactly the targets, everything they depend   *)
(* on and, only with the downstream flag, everything that depends on them, *)
(* joined by exactly the original edges between selected nodes.            *)
C7_SelectTargetsClosure ==
  (Constructed /\ targets # <<>>) =>
    LET T == Range(targets)
        S == T \cup Ancestors(T) \cup (IF downstream THEN Descendants(T) ELSE {})
    IN /\ TargetNodes = S
       /\ Len(target.nodes) = Cardinality(S)
       /\ target.edges = {e \in graph.edges : e[1] \in S /\ e[2] \in S}

C7_Witness ==
  /\ Constructed /\ targets # <<>> /\ downstream
  /\ Ancestors(Range(targets)) \ Range(targets) # {}
  /\ Descendants(Range(targets)) \ Range(targets) # {}
  /\ TargetNodes # Nodes

(* C25 (as claimed): when no callback fails, the queue does not go idle    *)
(* before it has resolved with every node of its graph built.              *)
C25_AllBuiltWithoutFailure ==
  (failLog = <<>> /\ Executing /\ InFlight = {}) =>
    /\ outcome = "resolved"
    /\ \A n \in TargetNodes : built[n]

(* C25 (amended): when no callback fails, the queue does not go idle       *)
(* before it has resolved, and then it has built exactly the nodes of its  *)
(* graph whose transitive dependencies all belong to that graph: all of    *)
(* them unless the graph was selected with the downstream flag.            *)
C25_AllSelectedBuiltWithoutFailure ==
  (failLog = <<>> /\ Executing /\ InFlight = {}) =>
    /\ outcome = "resolved"
    /\ \A n \in TargetNodes : built[n] <=> AllDependenciesSelected(n)
    /\ (targets = <<>> \/ ~downstream) => \A n \in TargetNodes : built[n]

C25_Witness ==
  /\ failLog = <<>> /\ outcome = "resolved" /\ InFlight = {}
  /\ targets # <<>> /\ downstream
  /\ \E n \in TargetNodes : ~built[n] /\ ~AllDependenciesSelected(n)
  /\ \E n \in TargetNodes : built[n] /\ dependencies(n) # {}

(* C26: execute() settles: once every callback that was started has        *)
(* settled, the promise is resolved or rejected, in both failure modes,    *)
(* and it never changes afterwards.                                        *)
C26_ExecuteSettles ==
  /\ []((Executing /\ InFlight = {}) => outcome \in {"resolved", "rejected"})
  /\ [][outcome # "pending" => outcome' = outcome]_vars

C26_Witness ==
  /\ bail /\ outcome = "rejected" /\ InFlight = {}
  /\ \E n \in TargetNodes : cb[n] = "finished"
  /\ \E n \in TargetNodes : ~Started(n)

(* C27: the callback of a node is started at most once: a node is in the   *)
(* buildable queue at most once and only before it is started, and a node  *)
(* that was enqueued or pruned and has left the queue never enters again.  *)
C27_StartedAtMostOnce ==
  /\ [](\A n \in Nodes :
          /\ Cardinality({i \in DOMAIN buildable : buildable[i] = n}) <= 1
          /\ n \in Range(buildable) => (n \in enqueued /\ ~Started(n)))
  /\ [][\A n \in Nodes :
          /\ (n \in enqueued /\ n \notin Range(buildable)) => n \notin Range(buildable')
          /\ n \in enqueued => n \in enqueued'
          /\ cb[n] \notin {"none", "running"} => cb'[n] # "running"]_vars

C27_Witness ==
  /\ ~bail /\ pruned > 0
  /\ \E n \in TargetNodes :
       /\ cb[n] = "finished"
       /\ dependencies(n) # {}
  /\ \E n \in enqueued : ~Started(n) /\ n \notin Range(buildable)

(* ===================== NozemNpmPackageBuild.build() ==================== *)
(* The build command is not running while the package builds are studied.  *)
CommandIdle ==
  /\ graph = NoGraph /\ targets = <<>> /\ downstream = FALSE
  /\ concurrency = 1 /\ bail = TRUE
  /\ target = NoGraph
  /\ built = [n \in Nodes |-> FALSE]
  /\ enqueued = {} /\ buildable = <<>> /\ failed = {}
  /\ finished = 0 /\ active = 0 /\ pruned = 0 /\ failedFlag = FALSE
  /\ cb = [n \in Nodes |-> "none"]
  /\ outcome = "pending" /\ rejectError = 0
  /\ failLog = <<>>
  /\ exitCode = 0
  /\ pc = "start"

(* What a step of a package build leaves alone. *)
outsidePackages == <<gvars, qvars, exitCode, pc, svars, uvars>>

(* Errors raised by the cache tiers, and the other ways a build can fail. *)
LookupErrors == {"sidecar_read", "index_read", "tarball_read"}
StoreErrors == {"sidecar_write"}

PackageInit ==
  /\ CommandIdle
  /\ S3Constructed
  /\ UtilitiesIdle
  /\ artifactCache \in {"null", "directory", "chain"}
  /\ PackagesIdle
  /\ CleanCheckout

(* An exception leaves the async function passed to cachedPromise: the     *)
(* promise of build() rejects with it.                                     *)
Throw(p, e) ==
  /\ bpc' = [bpc EXCEPT ![p] = "done"]
  /\ buildResult' = [buildResult EXCEPT ![p] = "rejected"]
  /\ buildError' = [buildError EXCEPT ![p] = e]

(* build() returns the files. *)
ReturnFiles(p) ==
  /\ bpc' = [bpc EXCEPT ![p] = "done"]
  /\ buildResult' = [buildResult EXCEPT ![p] = "resolved"]
  /\ UNCHANGED buildError

(* cachedPromise(obj, key, fn): fn() is called when the key is not yet in  *)
(* obj; otherwise the promise stored under the key is returned.            *)
cachedPromise_Always(keyInObj) == TRUE

cachedPromise(keyInObj) == ~keyInObj

(* A caller calls build(). The first call starts the body, which starts    *)
(* cacheLookup(); a later call gets the promise of the first.              *)
Build(p) ==
  /\ Len(callers[p]) < MaxCallers
  /\ LET last == IF callers[p] = <<>> THEN 0 ELSE callers[p][Len(callers[p])]
     IN callers' = [callers EXCEPT ![p] =
          Append(@, IF cachedPromise(bpc[p] # "idle") THEN last + 1 ELSE last)]
  /\ IF cachedPromise(bpc[p] # "idle")
       THEN /\ bpc' = [bpc EXCEPT ![p] = "inPlaceCacheLookup"]
            /\ lookups' = [lookups EXCEPT ![p] =
                             IF cachedPromise(@ > 0) THEN @ + 1 ELSE @]
       ELSE UNCHANGED <<bpc, lookups>>
  /\ UNCHANGED <<outsidePackages, artifactCache, inplace, cached, buildResult,
                 buildError, sidecar, storeP, diskvars, run, unchanged,
                 consulted, doBuilds, executed>>

(* The hash of the artifact files the sidecar lists, as far as they exist. *)
artifactHashOnDisk(p) == disk[p]

(* inPlaceCacheLookup() on a readable sidecar. *)
inPlaceCacheLookup_InputOnly(cache, hash, currentHash) ==
  IF cache = NoSidecar THEN "missing"
  ELSE IF cache.inputHash = hash THEN "ok"
  ELSE "mismatch"

inPlaceCacheLookup(cache, hash, currentHash) ==
  IF cache = NoSidecar THEN "missing"
  ELSE IF cache.inputHash = hash
         THEN IF currentHash # cache.artifactHash THEN "missing" ELSE "ok"
  ELSE "mismatch"

(* cacheLookup() after the in-place lookup: the files in place are the     *)
(* cached artifact, or workspace.artifactCache is asked.                   *)
cacheLookup_AlwaysAsk(r) == "lookup"

cacheLookup(r) == IF r = "ok" THEN "ensureDependenciesBuilt" ELSE "lookup"

(* inPlaceCacheLookup(): r is what reading and validating the sidecar      *)
(* gives; an error is logged and thrown again.                             *)
InPlaceCacheLookup(p, r) ==
  /\ bpc[p] = "inPlaceCacheLookup"
  /\ r \in {"error", inPlaceCacheLookup(sidecarFile[p], inputHash[p],
                                        artifactHashOnDisk(p))}
  /\ consulted' = [consulted EXCEPT ![p] = Append(@, "inplace")]
  /\ IF r = "error"
       THEN /\ Throw(p, "sidecar_read")
            /\ UNCHANGED <<inplace, cached>>
       ELSE /\ inplace' = [inplace EXCEPT ![p] = r]
            /\ cached' = [cached EXCEPT ![p] = IF r = "ok" THEN "inplace" ELSE @]
            /\ bpc' = [bpc EXCEPT ![p] = cacheLookup(r)]
            /\ UNCHANGED <<buildResult, buildError>>
  /\ UNCHANGED <<outsidePackages, artifactCache, sidecar, storeP, diskvars, run,
                 unchanged, callers, lookups, doBuilds, executed>>

(* CacheChain(localCache, s3Cache).lookup(): the caches are asked in the   *)
(* order given, the first hit is returned; so the chain also finds what    *)
(* only the remote cache has ...                                           *)
CacheChain_results == {"hit", "miss", "error", "remote_hit"}

(* ... and goes on to the remote cache when the local cache has no hit.    *)
CacheChain_tiers(r) ==
  IF r \in {"hit", "error"} THEN <<"local">> ELSE <<"local", "remote">>

(* What workspace.artifactCache.lookup() can give: NullCache resolves to   *)
(* undefined; DirectoryCache reads the index file, and throws when the     *)
(* read fails for another reason than ENOENT.                              *)
LookupResults == CASE artifactCache = "null" -> {"miss"}
                   [] artifactCache = "directory" -> {"hit", "miss", "error"}
                   [] artifactCache = "chain" -> CacheChain_results

(* The tiers a lookup with result r went through. *)
tiersConsulted(r) ==
  CASE artifactCache = "null" -> <<>>
    [] artifactCache = "directory" -> <<"local">>
    [] artifactCache = "chain" -> CacheChain_tiers(r)

ArtifactCacheLookup(p, r) ==
  /\ bpc[p] = "lookup"
  /\ r \in LookupResults
  /\ consulted' = [consulted EXCEPT ![p] = @ \o tiersConsulted(r)]
  /\ CASE r = "error" -> /\ Throw(p, "index_read")
                         /\ UNCHANGED cached
       [] r \in {"hit", "remote_hit"} ->
            /\ cached' = [cached EXCEPT ![p] = IF r = "hit" THEN "machine" ELSE "s3"]
            /\ bpc' = [bpc EXCEPT ![p] = "ensureDependenciesBuilt"]
            /\ UNCHANGED <<buildResult, buildError>>
       [] r = "miss" -> /\ bpc' = [bpc EXCEPT ![p] = "doBuild"]
                        /\ UNCHANGED <<cached, buildResult, buildError>>
  /\ UNCHANGED <<outsidePackages, artifactCache, inplace, sidecar, storeP,
                 diskvars, run, unchanged, callers, lookups, doBuilds, executed>>

(* await this.ensureDependenciesBuilt() *)
EnsureDependenciesBuilt(p, ok) ==
  /\ bpc[p] = "ensureDependenciesBuilt"
  /\ IF ok THEN /\ bpc' = [bpc EXCEPT ![p] = "fetch"]
                /\ UNCHANGED <<buildResult, buildError>>
           ELSE Throw(p, "dependency")
  /\ UNCHANGED <<outsidePackages, artifactCache, inplace, cached, sidecar,
                 storeP, diskvars, run, unchanged, consulted, callers, lookups,
                 doBuilds, executed>>

(* await cached.fetch(this.directory): nothing to do for the in-place      *)
(* files; the tarball stored under the input hash is unpacked otherwise.   *)
Fetch(p, ok) ==
  /\ bpc[p] = "fetch"
  /\ ok \/ cached[p] # "inplace"
  /\ IF ~ok THEN /\ Throw(p, "tarball_read")
                 /\ UNCHANGED disk
     ELSE IF cached[p] # "inplace"
            THEN /\ bpc' = [bpc EXCEPT ![p] = "storeInPlaceCache"]
                 /\ disk' = [disk EXCEPT ![p] = inputHash[p]]
                 /\ UNCHANGED <<buildResult, buildError>>
            ELSE /\ ReturnFiles(p)
                 /\ UNCHANGED disk
  /\ UNCHANGED <<outsidePackages, artifactCache, inplace, cached, sidecar,
                 storeP, inputHash, sidecarFile, run, unchanged, consulted,
                 callers, lookups, doBuilds, executed>>

(* doBuild(): the commands it runs in the sandbox, with their results. The *)
(* test command is run only with the workspace's test option, and only     *)
(* after the build command succeeded.                                      *)
doBuild(test, buildOk, testOk) ==
  IF ~buildOk THEN <<"build failed">>
  ELSE IF test THEN <<"build ok", IF testOk THEN "test ok" ELSE "test failed">>
  ELSE <<"build ok">>

(* Mutation: the error of a failed test command is swallowed. *)
shellExecute_TestErrorsIgnored(ran) ==
  IF ran[Len(ran)] = "build failed" THEN "build" ELSE "none"

(* shellExecute(command, ...): a failed command throws a SimpleError; the  *)
(* error doBuild() is left with by the commands it ran, "none" if none.    *)
shellExecute(ran) ==
  CASE ran[Len(ran)] = "build failed" -> "build"
    [] ran[Len(ran)] = "test failed" -> "test"
    [] OTHER -> "none"

(* await this.doBuild(): when no command failed, the artifacts of the      *)
(* current inputs are copied into the package directory; a failed command  *)
(* throws out of doBuild() and build().                                    *)
DoBuild(p, test, buildOk, testOk) ==
  /\ bpc[p] = "doBuild"
  /\ test \/ testOk
  /\ doBuilds' = [doBuilds EXCEPT ![p] = @ + 1]
  /\ LET ran == doBuild(test, buildOk, testOk)
         e == shellExecute(ran)
     IN /\ executed' = [executed EXCEPT ![p] = ran]
        /\ IF e # "none"
             THEN Throw(p, e) /\ UNCHANGED disk
             ELSE /\ bpc' = [bpc EXCEPT ![p] = "storeInPlaceCache"]
                  /\ disk' = [disk EXCEPT ![p] = inputHash[p]]
                  /\ UNCHANGED <<buildResult, buildError>>
  /\ UNCHANGED <<outsidePackages, artifactCache, inplace, cached, sidecar,
                 storeP, inputHash, sidecarFile, run, unchanged, consulted,
                 callers, lookups>>

(* The sidecar storeInPlaceCache() writes: the input tree and the hash of  *)
(* the artifact files as they are in the package directory.                *)
storeInPlaceCache_NoArtifactHash(hash, artifacts) ==
  [inputHash |-> hash, artifactHash |-> Absent]

storeInPlaceCache(hash, artifacts) ==
  [inputHash |-> hash, artifactHash |-> artifacts]

(* await this.storeInPlaceCache(files): writeJson of the sidecar. After a   *)
(* cache hit the files are returned, after a build the store is queued.    *)
StoreInPlaceCache(p, ok) ==
  /\ bpc[p] = "storeInPlaceCache"
  /\ IF ~ok THEN /\ Throw(p, "sidecar_write")
                 /\ UNCHANGED <<sidecar, sidecarFile>>
     ELSE /\ sidecar' = [sidecar EXCEPT ![p] = TRUE]
          /\ sidecarFile' = [sidecarFile EXCEPT ![p] =
               storeInPlaceCache(inputHash[p], artifactHashOnDisk(p))]
          /\ IF cached[p] # "none" THEN ReturnFiles(p)
             ELSE /\ bpc' = [bpc EXCEPT ![p] = "queueForStoring"]
                  /\ UNCHANGED <<buildResult, buildError>>
  /\ UNCHANGED <<outsidePackages, artifactCache, inplace, cached, storeP,
                 inputHash, disk, run, unchanged, consulted, callers, lookups,
                 doBuilds, executed>>

(* this.workspace.artifactCache.queueForStoring(...), not awaited, and the *)
(* return of the artifacts.                                                *)
QueueStore(p) ==
  /\ bpc[p] = "queueForStoring"
  /\ storeP' = [storeP EXCEPT ![p] = IF artifactCache # "null"
                                       THEN "queued" ELSE @]
  /\ ReturnFiles(p)
  /\ UNCHANGED <<outsidePackages, artifactCache, inplace, cached, sidecar,
                 diskvars, run, unchanged, consulted, callers, lookups, doBuilds, executed>>

(* The thunk queued by DirectoryCache.queueForStoring runs: tarball, then  *)
(* index. Its promise is held by nobody.                                   *)
DirectoryStore(p, ok) ==
  /\ storeP[p] = "queued"
  /\ storeP' = [storeP EXCEPT ![p] = IF ok THEN "stored" ELSE "rejected"]
  /\ UNCHANGED <<outsidePackages, artifactCache, bpc, inplace, cached,
                 buildResult, buildError, sidecar, diskvars, run, unchanged,
                 consulted, callers, lookups, doBuilds, executed>>

(* What can happen to a package directory between two process runs. *)
Edits == {"none", "sources", "artifacts", "clean", "sidecar"}

(* The process has ended and nozem is started again: the objects are new,  *)
(* the files are what the last run and the user's edits e left.            *)
NewRun(e) ==
  /\ run < MaxRuns
  /\ \A p \in Packages : bpc[p] \in {"idle", "done"} /\ storeP[p] # "queued"
  /\ run' = run + 1
  /\ inputHash' = [p \in Packages |->
       IF e[p] = "sources" THEN (inputHash[p] % NumHashes) + 1 ELSE inputHash[p]]
  /\ disk' = [p \in Packages |->
       CASE e[p] = "artifacts" /\ disk[p] # Absent -> Edited
         [] e[p] = "clean" -> Absent
         [] OTHER -> disk[p]]
  /\ sidecarFile' = [p \in Packages |->
       IF e[p] = "sidecar" THEN NoSidecar ELSE sidecarFile[p]]
  /\ unchanged' = [p \in Packages |-> buildResult[p] = "resolved" /\ e[p] = "none"]
  /\ bpc' = [p \in Packages |-> "idle"]
  /\ inplace' = [p \in Packages |-> "none"]
  /\ cached' = [p \in Packages |-> "none"]
  /\ buildResult' = [p \in Packages |-> "pending"]
  /\ buildError' = [p \in Packages |-> "none"]
  /\ sidecar' = [p \in Packages |-> FALSE]
  /\ storeP' = [p \in Packages |-> "none"]
  /\ consulted' = [p \in Packages |-> <<>>]
  /\ callers' = [p \in Packages |-> <<>>]
  /\ lookups' = [p \in Packages |-> 0]
  /\ doBuilds' = [p \in Packages |-> 0]
  /\ executed' = [p \in Packages |-> <<>>]
  /\ UNCHANGED <<outsidePackages, artifactCache>>

PackageNext ==
  \/ \E p \in Packages : Build(p)
  \/ \E p \in Packages : \E r \in {"ok", "missing", "mismatch", "error"} :
       InPlaceCacheLookup(p, r)
  \/ \E p \in Packages : \E r \in {"hit", "miss", "error", "remote_hit"} :
       ArtifactCacheLookup(p, r)
  \/ \E p \in Packages : \E ok \in BOOLEAN : EnsureDependenciesBuilt(p, ok)
  \/ \E p \in Packages : \E ok \in BOOLEAN : Fetch(p, ok)
  \/ \E p \in Packages : \E test, buildOk, testOk \in BOOLEAN :
       DoBuild(p, test, buildOk, testOk)
  \/ \E p \in Packages : \E ok \in BOOLEAN : StoreInPlaceCache(p, ok)
  \/ \E p \in Packages : QueueStore(p)
  \/ \E p \in Packages : \E ok \in BOOLEAN : DirectoryStore(p, ok)
  \/ \E e \in [Packages -> Edits] : NewRun(e)

PackageSpec == PackageInit /\ [][PackageNext]_vars

(* C8: no I/O error raised while looking up or fetching a cached artifact  *)
(* (reading the sidecar, the local index or the tarball) makes a package   *)
(* build fail: build() never rejects with such an error.                   *)
C8_LookupErrorsNeverFatal ==
  \A p \in Packages :
    buildResult[p] = "rejected" => buildError[p] \notin LookupErrors

(* C9: a failure while storing an artifact in a cache tier (here: writing  *)
(* the in-place sidecar) never aborts the caller: build() never rejects    *)
(* with a store error.                                                     *)
C9_StoreErrorsNeverFatal ==
  \A p \in Packages :
    buildResult[p] = "rejected" => buildError[p] \notin StoreErrors

(* C11: the in-place lookup reports a hit only when the sidecar's input   *)
(* tree hashes to the current input hash and the hash of the recorded      *)
(* files still on disk equals the recorded artifactHash; when the input    *)
(* hash matches and the artifact hash does not, a readable sidecar gives   *)
(* no error: the entry counts as missing and the lookup goes on to the     *)
(* artifact cache.                                                         *)
C11_InPlaceHitRule ==
  [][\A p \in Packages :
       (bpc[p] = "inPlaceCacheLookup" /\ bpc'[p] # "inPlaceCacheLookup") =>
         /\ inplace'[p] = "ok" =>
              /\ sidecarFile[p] # NoSidecar
              /\ sidecarFile[p].inputHash = inputHash[p]
              /\ sidecarFile[p].artifactHash = artifactHashOnDisk(p)
         /\ (/\ sidecarFile[p].inputHash = inputHash[p]
             /\ sidecarFile[p].artifactHash # artifactHashOnDisk(p)
             /\ buildError'[p] # "sidecar_read") =>
              /\ inplace'[p] = "missing"
              /\ buildResult'[p] = "pending"
              /\ bpc'[p] = "lookup"]_vars

C11_Witness ==
  \E p \in Packages :
    /\ sidecarFile[p].inputHash = inputHash[p]
    /\ sidecarFile[p].artifactHash # artifactHashOnDisk(p)
    /\ inplace[p] = "missing"
    /\ bpc[p] = "doBuild"

IsPrefix(s, t) == Len(s) <= Len(t) /\ \A i \in DOMAIN s : s[i] = t[i]

(* C13: a cache lookup consults the tiers in the order in-place, local,    *)
(* remote; a tier is consulted only if every tier before it missed, and    *)
(* the first hit is the one returned.                                      *)
C13_TierOrder ==
  \A p \in Packages :
    /\ IsPrefix(consulted[p], <<"inplace", "local", "remote">>)
    /\ Len(consulted[p]) >= 2 => inplace[p] \in {"missing", "mismatch"}
    /\ Len(consulted[p]) = 3 => cached[p] \in {"none", "s3"}
    /\ cached[p] = "inplace" => consulted[p] = <<"inplace">>
    /\ cached[p] = "machine" => consulted[p] = <<"inplace", "local">>
    /\ cached[p] = "s3" => consulted[p] = <<"inplace", "local", "remote">>

C13_Witness ==
  \E p \in Packages :
    /\ cached[p] = "s3"
    /\ consulted[p] = <<"inplace", "local", "remote">>
    /\ inplace[p] = "mismatch"

(* C14: the build() calls made on one package in one process share one     *)
(* computation: all of them hold the same promise, the cache lookup is     *)
(* performed at most once and doBuild is started at most once.             *)
C14_OneComputation ==
  \A p \in Packages :
    /\ \A i, j \in DOMAIN callers[p] : callers[p][i] = callers[p][j]
    /\ lookups[p] <= 1
    /\ doBuilds[p] <= 1
    /\ Len(consulted[p]) <= 3

C14_Witness ==
  \E p \in Packages :
    /\ Len(callers[p]) = MaxCallers
    /\ doBuilds[p] = 1
    /\ buildResult[p] = "resolved"

(* Vocabulary of the claim. *)
CommandsSucceeded(p) ==
  /\ executed[p] # <<>>
  /\ \A i \in DOMAIN executed[p] : executed[p][i] \in {"build ok", "test ok"}

CommandFailed(p) ==
  \E i \in DOMAIN executed[p] : executed[p][i] \in {"build failed", "test failed"}

(* C28: within a build(), the store on the external tiers is queued only   *)
(* after doBuild() ran the build command, and the test command when tests  *)
(* are enabled, with success; the sidecar is written only then or after an *)
(* artifact was fetched from an external tier; a failed build or test      *)
(* command stores nothing and leaves the sidecar file as it was.           *)
C28_RecordedOnlyAfterSuccess ==
  /\ [](\A p \in Packages :
          /\ storeP[p] # "none" => CommandsSucceeded(p)
          /\ sidecar[p] => (CommandsSucceeded(p) \/ cached[p] \in {"machine", "s3"})
          /\ CommandFailed(p) =>
               /\ ~sidecar[p] /\ storeP[p] = "none"
               /\ buildResult[p] = "rejected" /\ buildError[p] \in {"build", "test"})
  /\ [][\A p \in Packages :
          (CommandFailed(p)' /\ run' = run) => sidecarFile'[p] = sidecarFile[p]]_vars

C28_Witness ==
  \E p \in Packages :
    /\ run = 2
    /\ executed[p] = <<"build ok", "test failed">>
    /\ buildError[p] = "test"
    /\ sidecarFile[p] # NoSidecar
    /\ sidecarFile[p].inputHash # inputHash[p]

(* ================================ S3Cache ============================== *)
(* What a step of the S3Cache leaves alone. *)
outsideS3 == <<gvars, qvars, exitCode, pc, kvars, uvars>>

S3Init ==
  /\ CommandIdle
  /\ UtilitiesIdle
  /\ artifactCache = "null"
  /\ PackagesIdle
  /\ CleanCheckout
  /\ S3Constructed

(* A call that has just been made, with the breakers as it found them. *)
NewCall(op) == [NoCall EXCEPT !.op = op, !.result = "pending",
                              !.enabledAtCall = _enabled,
                              !.writeEnabledAtCall = _writeEnabled]

Finish(call, result) == [call EXCEPT !.at = "done", !.result = result]

(* startS3IndexScan(): the background listing ends, or fails and opens the *)
(* read breaker.                                                           *)
IndexScan(ok) ==
  /\ scan = "running"
  /\ scan' = IF ok THEN "done" ELSE "failed"
  /\ _enabled' = IF ok THEN _enabled ELSE FALSE
  /\ UNCHANGED <<outsideS3, _writeEnabled, calls>>

(* lookup(loc) up to its first await. *)
lookup(en) ==
  IF ~en THEN Finish(NewCall("lookup"), "miss")
  ELSE [NewCall("lookup") EXCEPT !.at = "readLocalIndex"]

Lookup(c) ==
  /\ calls[c].op = "none"
  /\ calls' = [calls EXCEPT ![c] = lookup(_enabled)]
  /\ UNCHANGED <<outsideS3, _enabled, _writeEnabled, scan>>

(* readJsonIfExists(localIndexPath) returns: a local index makes a hit;    *)
(* without one remoteContains() is entered, which gives up at once when    *)
(* the read breaker is open and sends listObjectsV2 otherwise.             *)
ReadLocalIndex(c, r) ==
  /\ calls[c].op = "lookup" /\ calls[c].at = "readLocalIndex"
  /\ LET call == [calls[c] EXCEPT !.consulted = TRUE]
     IN calls' = [calls EXCEPT ![c] =
          CASE r = "found" -> Finish(call, "hit")
            [] r = "error" -> Finish(call, "error")
            [] r = "absent" ->
                 IF ~_enabled THEN Finish(call, "miss")
                 ELSE [call EXCEPT !.at = "remoteContains", !.contacted = TRUE]]
  /\ UNCHANGED <<outsideS3, _enabled, _writeEnabled, scan>>

(* listObjectsV2 answers; an error opens the read breaker. *)
RemoteContains(c, r) ==
  /\ calls[c].op = "lookup" /\ calls[c].at = "remoteContains"
  /\ calls' = [calls EXCEPT ![c] =
       IF r = "yes" THEN [@ EXCEPT !.at = "fetchRemote"] ELSE Finish(@, "miss")]
  /\ _enabled' = IF r = "error" THEN FALSE ELSE _enabled
  /\ UNCHANGED <<outsideS3, _writeEnabled, scan>>

(* getObject of the remote index answers; an error leaves lookup(). *)
FetchRemote(c, ok) ==
  /\ calls[c].op = "lookup" /\ calls[c].at = "fetchRemote"
  /\ calls' = [calls EXCEPT ![c] = Finish(@, IF ok THEN "hit" ELSE "error")]
  /\ UNCHANGED <<outsideS3, _enabled, _writeEnabled, scan>>

(* downloadRemoteIndexFile(loc) fails during the index scan: an error of   *)
(* the stream rejects the promise and reaches the catch of the scan; a     *)
(* rejected getObject is thrown inside the async executor, where nothing   *)
(* calls ko, so that the scan waits for ever.                              *)
DownloadRemoteIndexFile(r) ==
  /\ scan = "running"
  /\ scan' = IF r = "streamError" THEN "failed" ELSE "stuck"
  /\ _enabled' = IF r = "streamError" THEN FALSE ELSE _enabled
  /\ UNCHANGED <<outsideS3, _writeEnabled, calls>>

(* S3Artifact.fetch(targetDir) on the artifact a lookup returned: the      *)
(* artifact holds the S3 client and not the cache, so no outcome touches   *)
(* the breakers. A stream error rejects; a rejected getObject leaves the   *)
(* promise unsettled.                                                      *)
S3Artifact_fetch(call, r) ==
  [call EXCEPT !.result = CASE r = "ok" -> "fetched"
                            [] r = "streamError" -> "fetchError"
                            [] r = "getObjectError" -> "fetchUnsettled"]

FetchArtifact(c, r) ==
  /\ calls[c].op = "lookup" /\ calls[c].at = "done" /\ calls[c].result = "hit"
  /\ calls' = [calls EXCEPT ![c] = S3Artifact_fetch(@, r)]
  /\ UNCHANGED <<outsideS3, _enabled, _writeEnabled, scan>>

(* queueForStoring(pv, files) up to the start of the upload. *)
queueForStoring_IgnoreEnabled(en, wen) ==
  IF ~wen THEN Finish(NewCall("store"), "skipped")
  ELSE [NewCall("store") EXCEPT !.at = "putData", !.contacted = TRUE]

queueForStoring(en, wen) ==
  IF ~en \/ ~wen THEN Finish(NewCall("store"), "skipped")
  ELSE [NewCall("store") EXCEPT !.at = "putData", !.contacted = TRUE]

QueueForStoring(c) ==
  /\ calls[c].op = "none"
  /\ calls' = [calls EXCEPT ![c] = queueForStoring(_enabled, _writeEnabled)]
  /\ UNCHANGED <<outsideS3, _enabled, _writeEnabled, scan>>

(* putObject of the tarball, then of the index; an error in either opens   *)
(* the write breaker.                                                      *)
PutObject(c, ok) ==
  /\ calls[c].op = "store" /\ calls[c].at \in {"putData", "putIndex"}
  /\ calls' = [calls EXCEPT ![c] =
       IF ~ok THEN Finish(@, "failed")
       ELSE IF @.at = "putData" THEN [@ EXCEPT !.at = "putIndex"]
       ELSE Finish(@, "stored")]
  /\ _writeEnabled' = IF ok THEN _writeEnabled ELSE FALSE
  /\ UNCHANGED <<outsideS3, _enabled, scan>>

(* The caller is done with a finished call. *)
Return(c) ==
  /\ calls[c].op # "none" /\ calls[c].at = "done"
  /\ calls' = [calls EXCEPT ![c] = NoCall]
  /\ UNCHANGED <<outsideS3, _enabled, _writeEnabled, scan>>

S3Next ==
  \/ \E ok \in BOOLEAN : IndexScan(ok)
  \/ \E c \in CallIds : Lookup(c)
  \/ \E c \in CallIds : \E r \in {"found", "absent", "error"} : ReadLocalIndex(c, r)
  \/ \E c \in CallIds : \E r \in {"yes", "no", "error"} : RemoteContains(c, r)
  \/ \E c \in CallIds : \E ok \in BOOLEAN : FetchRemote(c, ok)
  \/ \E r \in {"streamError", "getObjectError"} : DownloadRemoteIndexFile(r)
  \/ \E c \in CallIds : \E r \in {"ok", "streamError", "getObjectError"} : FetchArtifact(c, r)
  \/ \E c \in CallIds : QueueForStoring(c)
  \/ \E c \in CallIds : \E ok \in BOOLEAN : PutObject(c, ok)
  \/ \E c \in CallIds : Return(c)

S3Spec == S3Init /\ [][S3Next]_vars

BreakersOnlyOpen ==
  /\ _enabled' => _enabled
  /\ _writeEnabled' => _writeEnabled

(* A failed upload opens the write breaker and leaves the read breaker. *)
WriteFailureTripsWriteOnly ==
  \A c \in CallIds :
    (calls[c].result = "pending" /\ calls'[c].result = "failed")
      => (~_writeEnabled' /\ _enabled' = _enabled)

ShortCircuited(call) == ~call.consulted /\ ~call.contacted

CallsShortCircuit ==
  \A c \in CallIds :
    LET call == calls[c] IN
      /\ (call.op = "lookup" /\ ~call.enabledAtCall)
           => (call.result = "miss" /\ ShortCircuited(call))
      /\ (call.op = "store" /\ (~call.enabledAtCall \/ ~call.writeEnabledAtCall))
           => (call.result = "skipped" /\ ShortCircuited(call))
      /\ (call.op = "lookup" /\ call.enabledAtCall /\ call.at = "done")
           => call.consulted

(* C10: the two breaker flags only go from enabled to disabled; a lookup   *)
(* made after the read breaker tripped returns no hit, and a store made    *)
(* after either breaker tripped is skipped, without contacting the remote; *)
(* a write failure trips the write breaker only, and a lookup made while   *)
(* the read breaker is closed is served whatever the write breaker.        *)
C10_CircuitBreakers ==
  /\ [][BreakersOnlyOpen /\ WriteFailureTripsWriteOnly]_vars
  /\ []CallsShortCircuit

C10_Witness ==
  /\ ~_enabled /\ ~_writeEnabled
  /\ \E c, d \in CallIds :
       /\ calls[c].op = "lookup" /\ calls[c].enabledAtCall
       /\ ~calls[c].writeEnabledAtCall /\ calls[c].result = "hit"
       /\ calls[d].op = "store" /\ ~calls[d].enabledAtCall
       /\ calls[d].result = "skipped"

(* A read from the remote tier fails in this step. *)
ProbeFails == \E c \in CallIds : RemoteContains(c, "error")

IndexDownloadFails == \E c \in CallIds : FetchRemote(c, FALSE)

DataDownloadFails ==
  \E c \in CallIds : \E r \in {"streamError", "getObjectError"} : FetchArtifact(c, r)

IndexScanFails ==
  \/ IndexScan(FALSE)
  \/ \E r \in {"streamError", "getObjectError"} : DownloadRemoteIndexFile(r)

(* C29: any failure while reading from the remote tier (the existence     *)
(* probe, the download of a remote index, the download of artifact data,   *)
(* the startup index scan) trips the read breaker: the tier is disabled    *)
(* after the step in which the read failed.                                *)
C29_ReadFailureTripsReadBreaker ==
  [][(ProbeFails \/ IndexDownloadFails \/ DataDownloadFails \/ IndexScanFails)
       => ~_enabled']_vars

(* ===================== DirectoryCache.cleanCache() ===================== *)
(* No build command, package build or cache call is under way. *)
CachesIdle ==
  /\ CommandIdle
  /\ artifactCache = "null"
  /\ PackagesIdle
  /\ CleanCheckout
  /\ S3Constructed

outsideCleaning == <<gvars, qvars, exitCode, pc, kvars, svars, hvars, mvars, wvars, evars, bvars, fvars, iovars, dvars, nvars, lvars, xvars>>

CleanInit ==
  /\ CachesIdle
  /\ MirrorIdle
  /\ BinLinksIdle
  /\ DependenciesIdle
  /\ DirectoryIdle
  /\ PoolIdle
  /\ SidecarIdle
  /\ SandboxesIdle
  /\ EnvironmentIdle
  /\ WorkspaceIdle
  /\ maxSizeMB \in BOOLEAN
  /\ CleaningIdle
  /\ HoistIdle
  /\ MerkleIdle

(* PROMISE_POOL = new PromisePool(4) *)
maxN == 4

(* The fields of the OneAtATime and the counts of its jobs, as one record. *)
O == [running |-> _running, queued |-> _queued, started |-> started,
      arrived |-> arrived, requested |-> requested]

SetO(o) ==
  /\ _running' = o.running
  /\ _queued' = o.queued
  /\ started' = o.started
  /\ arrived' = o.arrived
  /\ requested' = o.requested

(* The loop of tryRun() at its head: another job is started while _queued  *)
(* is set, else the loop ends and `finally` clears _running.               *)
loop(o) ==
  IF o.queued
    THEN [o EXCEPT !.queued = FALSE, !.started = @ + 1, !.arrived = 0]
    ELSE [o EXCEPT !.running = FALSE]

(* tryRun(cb) *)
tryRun_NoGuard(o) ==
  loop([o EXCEPT !.running = TRUE, !.queued = TRUE, !.requested = @ + 1])

tryRun(o) ==
  IF o.running
    THEN [o EXCEPT !.queued = TRUE, !.arrived = @ + 1, !.requested = @ + 1]
    ELSE loop([o EXCEPT !.running = TRUE, !.queued = TRUE, !.requested = @ + 1])

(* cleanCache(): nothing to do without a size limit. *)
cleanCache(o) == IF maxSizeMB THEN tryRun(o) ELSE o

launchPool_OffByOne(queued, nActive) ==
  IF nActive > maxN \/ queued = 0 THEN <<queued, nActive>>
  ELSE <<queued - 1, nActive + 1>>

(* PromisePool.launchMore(): the next queued thunk is started when fewer   *)
(* than maxN are active.                                                   *)
launchPool(queued, nActive) ==
  IF nActive >= maxN \/ queued = 0 THEN <<queued, nActive>>
  ELSE <<queued - 1, nActive + 1>>

(* DirectoryCache.queueForStoring(pv, files): the store is handed to the   *)
(* pool.                                                                   *)
QueueDirectoryStore ==
  /\ made < MaxStores
  /\ made' = made + 1
  /\ LET l == launchPool(poolQueued + 1, poolActive)
     IN poolQueued' = l[1] /\ poolActive' = l[2]
  /\ UNCHANGED <<outsideCleaning, maxSizeMB, _running, _queued, started, ended,
                 arrived, requested>>

(* A store ends: having written the tarball and the index it calls         *)
(* cleanCache(), or it failed before; then the pool starts the next one.   *)
StoreEnd(ok) ==
  /\ poolActive > 0
  /\ SetO(IF ok THEN cleanCache(O) ELSE O)
  /\ LET l == launchPool(poolQueued, poolActive - 1)
     IN poolQueued' = l[1] /\ poolActive' = l[2]
  /\ UNCHANGED <<outsideCleaning, maxSizeMB, ended, made>>

(* `await cb()` returns or throws (the error is logged), and the loop goes *)
(* round.                                                                  *)
JobEnd(ok) ==
  /\ ended < started
  /\ ended' = ended + 1
  /\ SetO(loop(O))
  /\ UNCHANGED <<outsideCleaning, maxSizeMB, made, poolQueued, poolActive>>

CleanNext ==
  \/ QueueDirectoryStore
  \/ \E ok \in BOOLEAN : StoreEnd(ok)
  \/ \E ok \in BOOLEAN : JobEnd(ok)

CleanSpec == CleanInit /\ [][CleanNext]_vars

(* C15: cleanup jobs never overlap; a request made while a job runs starts *)
(* nothing, and when the job ends exactly one more job is started if any   *)
(* request arrived during it, and none otherwise.                          *)
C15_OneCleanupAtATime ==
  /\ [](started - ended <= 1)
  /\ [][/\ (requested' # requested /\ started > ended) => started' = started
        /\ ended' # ended =>
             started' = started + (IF arrived > 0 THEN 1 ELSE 0)]_vars

C15_Witness ==
  /\ requested >= 4
  /\ started = 2
  /\ ended = 2

(* ========================= hoistDependencies ============================ *)
(* The tree is a heap of objects: hoisting stores the same object under    *)
(* several parents.  dependencies is a sequence of [name, node] entries in *)
(* insertion order, the order Object.entries() and Object.values() give.   *)
RootNode == 1
NoNode == 0
NoVersion == 0

NameSeq == <<"leftPad", "spacemaker", "wrapper", "stringutil", "numutil", "isodd">>
Names == {NameSeq[i] : i \in 1..NumNames}
Versions == 1..NumVersions

outsideHoisting == <<gvars, qvars, exitCode, pc, kvars, svars, ovars, mvars, wvars, evars, bvars, fvars, iovars, dvars, nvars, lvars, xvars>>

(* dependencies?.[name]: the node stored under the name, if any. *)
dep(h, n, name) ==
  IF ~h[n].defined THEN NoNode
  ELSE LET at == {i \in DOMAIN h[n].dependencies : h[n].dependencies[i].name = name}
       IN IF at = {} THEN NoNode
          ELSE h[n].dependencies[CHOOSE i \in at : TRUE].node

(* dependencies[name] = d: a new key is added after the keys there are. *)
setDep(h, n, name, d) ==
  [h EXCEPT ![n].dependencies = Append(@, [name |-> name, node |-> d])]

(* delete dependencies[name] *)
deleteDep(h, n, name) ==
  [h EXCEPT ![n].dependencies = SelectSeq(@, LAMBDA e : e.name # name)]

(* Object.values(node.dependencies) *)
values(h, n) == [i \in DOMAIN h[n].dependencies |-> h[n].dependencies[i].node]

(* recordOriginalDependencies(packageTree): every node with dependencies   *)
(* gets the list of the name@version it declares.                          *)
recordOriginalDependencies(h) ==
  [n \in DOMAIN h |->
     IF h[n].defined
       THEN {<<h[n].dependencies[i].name, h[h[n].dependencies[i].node].version>> :
               i \in DOMAIN h[n].dependencies}
       ELSE {}]

(* moveUp(node, parent); s is [h, didChange]. *)
RECURSIVE moveUp(_, _, _)
RECURSIVE moveUpPush(_, _, _, _)
RECURSIVE moveUpPush_Overwrite(_, _, _, _)
RECURSIVE moveUpRecurse(_, _, _, _)

moveUpPush_Overwrite(s, entries, i, parent) ==
  IF i > Len(entries) THEN s
  ELSE moveUpPush_Overwrite(
         IF dep(s.h, parent, entries[i].name) # entries[i].node
           THEN [h |-> setDep(deleteDep(s.h, parent, entries[i].name), parent,
                              entries[i].name, entries[i].node),
                 didChange |-> dep(s.h, parent, entries[i].name) = NoNode]
           ELSE s,
         entries, i + 1, parent)

moveUpPush(s, entries, i, parent) ==
  IF i > Len(entries) THEN s
  ELSE moveUpPush(
         IF dep(s.h, parent, entries[i].name) = NoNode
           THEN [h |-> setDep(s.h, parent, entries[i].name, entries[i].node),
                 didChange |-> TRUE]
           ELSE s,
         entries, i + 1, parent)

moveUpRecurse(s, children, i, node) ==
  IF i > Len(children) THEN s
  ELSE moveUpRecurse(moveUp(s, children[i], node), children, i + 1, node)

moveUp(s, node, parent) ==
  IF ~s.h[node].defined THEN s
  ELSE LET pushed == IF parent # NoNode
                       THEN moveUpPush(s, s.h[node].dependencies, 1, parent)
                       ELSE s
       IN moveUpRecurse(pushed, values(pushed.h, node), 1, node)

(* findInheritedDepVersion(name, parentDependenciesChain) *)
RECURSIVE findInheritedDepVersion(_, _, _)
findInheritedDepVersion(h, name, chain) ==
  IF chain = <<>> THEN NoVersion
  ELSE IF dep(h, Head(chain), name) # NoNode
         THEN h[dep(h, Head(chain), name)].version
         ELSE findInheritedDepVersion(h, name, Tail(chain))

(* removeDupes(node, rootPath) *)
RECURSIVE removeDupes(_, _, _)
RECURSIVE removeDupesDelete(_, _, _, _, _)
RECURSIVE removeDupesRecurse(_, _, _, _)

removeDupesDelete_Never(h, entries, i, node, rootPath) == h

removeDupesDelete(h, entries, i, node, rootPath) ==
  IF i > Len(entries) THEN h
  ELSE removeDupesDelete(
         IF findInheritedDepVersion(h, entries[i].name, rootPath)
              = h[entries[i].node].version
           THEN deleteDep(h, node, entries[i].name)
           ELSE h,
         entries, i + 1, node, rootPath)

removeDupesRecurse(h, children, i, rootPath) ==
  IF i > Len(children) THEN h
  ELSE removeDupesRecurse(removeDupes(h, children[i], rootPath), children,
                          i + 1, rootPath)

removeDupes(h, node, rootPath) ==
  IF ~h[node].defined THEN h
  ELSE LET deleted == removeDupesDelete(h, h[node].dependencies, 1, node, rootPath)
       IN removeDupesRecurse(deleted, values(deleted, node), 1,
                             <<node>> \o rootPath)

(* necessaryInTree(name, version, tree) *)
RECURSIVE necessaryInTree(_, _, _, _, _)
necessaryInTree(h, orig, name, version, tree) ==
  \/ <<name, version>> \in orig[tree]
  \/ /\ h[tree].defined
     /\ \E i \in DOMAIN h[tree].dependencies :
          necessaryInTree(h, orig, name, version, h[tree].dependencies[i].node)

(* removeUseless(node) *)
RECURSIVE removeUseless(_, _, _)
RECURSIVE removeUselessDelete(_, _, _, _, _)
RECURSIVE removeUselessRecurse(_, _, _, _)

removeUselessDelete(h, orig, entries, i, node) ==
  IF i > Len(entries) THEN h
  ELSE removeUselessDelete(
         IF ~necessaryInTree(h, orig, entries[i].name,
                             h[entries[i].node].version, node)
           THEN deleteDep(h, node, entries[i].name)
           ELSE h,
         orig, entries, i + 1, node)

removeUselessRecurse(h, orig, children, i) ==
  IF i > Len(children) THEN h
  ELSE removeUselessRecurse(removeUseless(h, orig, children[i]), orig,
                            children, i + 1)

removeUseless(h, orig, node) ==
  IF ~h[node].defined THEN h
  ELSE LET deleted == removeUselessDelete(h, orig, h[node].dependencies, 1, node)
           recursed == removeUselessRecurse(deleted, orig, values(deleted, node), 1)
       IN IF Len(recursed[node].dependencies) = 0
            THEN [recursed EXCEPT ![node].defined = FALSE]
            ELSE recursed

(* renderTree(tree), as the set of its lines: <<path, version>>. *)
RECURSIVE renderFrom(_, _, _)
renderFrom(h, n, parts) ==
  IF ~h[n].defined THEN {}
  ELSE UNION {
         {<<Append(parts, h[n].dependencies[i].name),
            h[h[n].dependencies[i].node].version>>}
           \cup renderFrom(h, h[n].dependencies[i].node,
                           Append(parts, h[n].dependencies[i].name)) :
         i \in DOMAIN h[n].dependencies }

renderTree(h) == renderFrom(h, RootNode, <<>>)

(* ------------------------------ the inputs ------------------------------ *)
(* A naive tree of n nodes: node i > 1 is stored under parent[i] < i with  *)
(* name[i] at version[i]; leaves have no dependencies key (the tests) or   *)
(* an empty one (buildNaiveTree).                                          *)
naiveTreeOf(n, parent, name, version, leafDeps) ==
  [i \in 1..n |->
     LET children == SortedSeq({c \in 2..n : parent[c] = i})
     IN [version |-> version[i],
         defined |-> (children # <<>>) \/ leafDeps,
         dependencies |-> [k \in DOMAIN children |->
                             [name |-> name[children[k]], node |-> children[k]]]]]

RECURSIVE ParentMaps(_)
ParentMaps(n) ==
  IF n = 1 THEN {<<NoNode>>}
  ELSE {Append(p, q) : p \in ParentMaps(n - 1), q \in 1..(n - 1)}

(* Names and versions are only ever compared for equality, so one tree   *)
(* of each class of renamings is taken: the k-th distinct value met in the *)
(* order of the nodes is the k-th of the set.                              *)
Canonical(f) ==
  \A i \in DOMAIN f : f[i] = 1 \/ \E j \in 1..(i - 1) : f[j] = f[i] - 1

(* The names of the nodes 2..n, as indices into NameSeq: the keys of one   *)
(* record are distinct.                                                    *)
NamesFor(n, parent) ==
  {f \in [1..(n - 1) -> 1..NumNames] :
     /\ Canonical(f)
     /\ \A a, b \in 1..(n - 1) :
          (a # b /\ f[a] = f[b]) => parent[a + 1] # parent[b + 1]}

VersionsFor(n) == {v \in [1..(n - 1) -> Versions] : Canonical(v)}

(* The naive trees of up to MaxTreeNodes nodes. *)
IsNaiveTree(h) ==
  \E n \in 2..MaxTreeNodes :
    \E parent \in ParentMaps(n) :
      \E name \in NamesFor(n, parent) :
        \E version \in VersionsFor(n) :
          \E leafDeps \in BOOLEAN :
            h = naiveTreeOf(n, parent,
                            <<"">> \o [i \in 1..(n - 1) |-> NameSeq[name[i]]],
                            <<NoVersion>> \o version, leafDeps)

(* The trees of the tests. *)
NonconflictingTree ==
  naiveTreeOf(5, <<0, 1, 2, 1, 4>>,
              <<"", "stringutil", "leftpad", "numutil", "isodd">>,
              <<0, 1, 2, 3, 4>>, FALSE)

MatchingVersionsTree ==
  naiveTreeOf(6, <<0, 1, 2, 1, 4, 4>>,
              <<"", "stringutil", "leftpad", "numutil", "leftpad", "isodd">>,
              <<0, 1, 2, 3, 2, 4>>, FALSE)

UselessPositionsTree ==
  naiveTreeOf(7, <<0, 1, 2, 3, 1, 5, 1>>,
              <<"", "stringutil", "leftpad", "spacemaker", "leftpad",
                "spacemaker", "spacemaker">>,
              <<0, 1, 2, 3, 2, 3, 4>>, FALSE)

IncorrectVersionTree ==
  naiveTreeOf(6, <<0, 1, 2, 2, 4, 1>>,
              <<"", "stringutil", "spacemaker", "leftPad", "spacemaker", "leftPad">>,
              <<0, 1, 10, 2, 3, 1>>, FALSE)

OrderOfHoistingTree ==
  naiveTreeOf(6, <<0, 1, 2, 3, 4, 2>>,
              <<"", "stringutil", "wrapper", "leftPad", "spacemaker", "spacemaker">>,
              <<0, 1, 100, 2, 3, 4>>, FALSE)

(* A tree in which the copy of leftpad that declares its dependencies is   *)
(* the one below stringutil; the copy directly under the root declares     *)
(* none.                                                                   *)
DedupedDeclarerTree ==
  naiveTreeOf(7, <<0, 1, 2, 3, 3, 5, 1>>,
              <<"", "stringutil", "leftpad", "spacemaker", "numutil",
                "spacemaker", "leftpad">>,
              <<0, 1, 1, 1, 1, 1, 1>>, FALSE)

TestTrees == {NonconflictingTree, MatchingVersionsTree, UselessPositionsTree,
              IncorrectVersionTree, OrderOfHoistingTree}

(* ------------------------------ the steps ------------------------------- *)
HoistInit ==
  /\ CachesIdle
  /\ MirrorIdle
  /\ BinLinksIdle
  /\ DependenciesIdle
  /\ DirectoryIdle
  /\ PoolIdle
  /\ SidecarIdle
  /\ SandboxesIdle
  /\ EnvironmentIdle
  /\ WorkspaceIdle
  /\ maxSizeMB = TRUE
  /\ CleaningIdle
  /\ MerkleIdle
  /\ \/ IsNaiveTree(packageTree)
     \/ packageTree \in TestTrees
     \/ packageTree = DedupedDeclarerTree
  /\ naiveTree = packageTree
  /\ originalDependencies = <<>>
  /\ didChange = FALSE
  /\ hoistPc = "recordOriginalDependencies"
  /\ passes = 0

RecordOriginalDependencies ==
  /\ hoistPc = "recordOriginalDependencies"
  /\ originalDependencies' = recordOriginalDependencies(packageTree)
  /\ hoistPc' = "moveUp"
  /\ UNCHANGED <<outsideHoisting, packageTree, didChange, passes, naiveTree>>

(* One round of the do-while loop. *)
MoveUp_NoReset ==
  /\ hoistPc = "moveUp"
  /\ LET s == moveUp([h |-> packageTree, didChange |-> didChange], RootNode, NoNode)
     IN /\ packageTree' = s.h
        /\ didChange' = s.didChange
        /\ hoistPc' = IF s.didChange THEN "moveUp" ELSE "removeDupes"
  /\ passes' = passes + 1
  /\ UNCHANGED <<outsideHoisting, originalDependencies, naiveTree>>

MoveUp ==
  /\ hoistPc = "moveUp"
  /\ LET s == moveUp([h |-> packageTree, didChange |-> FALSE], RootNode, NoNode)
     IN /\ packageTree' = s.h
        /\ didChange' = s.didChange
        /\ hoistPc' = IF s.didChange THEN "moveUp" ELSE "removeDupes"
  /\ passes' = passes + 1
  /\ UNCHANGED <<outsideHoisting, originalDependencies, naiveTree>>

RemoveDupes ==
  /\ hoistPc = "removeDupes"
  /\ packageTree' = removeDupes(packageTree, RootNode, <<>>)
  /\ hoistPc' = "removeUseless"
  /\ UNCHANGED <<outsideHoisting, originalDependencies, didChange, passes, naiveTree>>

RemoveUseless ==
  /\ hoistPc = "removeUseless"
  /\ packageTree' = removeUseless(packageTree, originalDependencies, RootNode)
  /\ hoistPc' = "done"
  /\ UNCHANGED <<outsideHoisting, originalDependencies, didChange, passes, naiveTree>>

HoistNext ==
  \/ RecordOriginalDependencies
  \/ MoveUp
  \/ RemoveDupes
  \/ RemoveUseless

HoistSpec == HoistInit /\ [][HoistNext]_vars

(* ------------------------------ resolution ------------------------------ *)
(* The places where objects end up: the chains <<node, parent, ..., root>> *)
(* of the tree.                                                            *)
RECURSIVE placesFrom(_, _)
placesFrom(h, chain) ==
  {chain} \cup
  (IF ~h[Head(chain)].defined THEN {}
   ELSE UNION { placesFrom(h, <<h[Head(chain)].dependencies[i].node>> \o chain) :
                  i \in DOMAIN h[Head(chain)].dependencies })

places(h) == placesFrom(h, <<RootNode>>)

(* Every dependency a package declared is found at the declared version    *)
(* from every place the package is at.                                     *)
VersionCorrect(h, declared) ==
  \A chain \in places(h) :
    \A d \in declared[Head(chain)] :
      findInheritedDepVersion(h, d[1], chain) = d[2]

(* No package is below a package of its name: what the tree builder      *)
(* leaves of the dependency relation, which it cuts where a name comes     *)
(* back on the path from the root.                                         *)
Acyclic(h) ==
  \A l \in renderTree(h) :
    \A i, j \in 1..Len(l[1]) : i < j => l[1][i] # l[1][j]

C17_OrderOfHoisting ==
  (hoistPc = "done" /\ naiveTree = OrderOfHoistingTree) =>
    renderTree(packageTree) =
      { <<<<"stringutil">>, 1>>, <<<<"stringutil", "spacemaker">>, 4>>,
        <<<<"wrapper">>, 100>>, <<<<"leftPad">>, 2>>, <<<<"spacemaker">>, 3>> }

(* What the code renders for that tree. *)
C17_AsCoded ==
  (hoistPc = "done" /\ naiveTree = OrderOfHoistingTree) =>
    renderTree(packageTree) =
      { <<<<"stringutil">>, 1>>, <<<<"wrapper">>, 100>>, <<<<"spacemaker">>, 4>>,
        <<<<"leftPad">>, 2>>, <<<<"leftPad", "spacemaker">>, 3>> }

(* The packages of a tree: the name@version of its entries. *)
packages(h) == {<<l[1][Len(l[1])], l[2]>> : l \in renderTree(h)}

NoConflict(h) ==
  \A p, q \in packages(h) : p[1] = q[1] => p[2] = q[2]

(* Every entry is directly under the root and no package has a            *)
(* dependencies map.                                                       *)
TopLevelOnly(h) ==
  /\ \A l \in renderTree(h) : Len(l[1]) = 1
  /\ \A chain \in places(h) : Len(chain) > 1 => ~h[Head(chain)].defined

Flat(h, pkgs) ==
  /\ renderTree(h) = {<<<<p[1]>>, p[2]>> : p \in pkgs}
  /\ TopLevelOnly(h)

(* All copies of the same name@version declare the same dependencies. *)
entries(h) ==
  UNION { {h[n].dependencies[i] : i \in DOMAIN h[n].dependencies} : n \in DOMAIN h }

Consistent(h) ==
  \A e1, e2 \in entries(h) :
    (e1.name = e2.name /\ h[e1.node].version = h[e2.node].version) =>
      recordOriginalDependencies(h)[e1.node] = recordOriginalDependencies(h)[e2.node]

(* C18: when no name is at two versions in the input tree, the hoisted     *)
(* tree is flat: every package of the input is once directly under the     *)
(* root and no package keeps a dependencies map.                           *)
C18_Flat ==
  (hoistPc = "done" /\ NoConflict(naiveTree)) =>
    Flat(packageTree, packages(naiveTree))

(* C18 as the code has it: the hoisted tree is flat and holds packages of  *)
(* the input only; it holds every package of the input when all copies of  *)
(* the same name@version declare the same dependencies.                    *)
C18_FlatWhenConsistent ==
  (hoistPc = "done" /\ NoConflict(naiveTree)) =>
    /\ TopLevelOnly(packageTree)
    /\ packages(packageTree) \subseteq packages(naiveTree)
    /\ Consistent(naiveTree) => Flat(packageTree, packages(naiveTree))

C18_Witness ==
  /\ hoistPc = "done"
  /\ NoConflict(naiveTree)
  /\ Consistent(naiveTree)
  /\ Acyclic(naiveTree)
  /\ Cardinality(packages(naiveTree)) < Cardinality(renderTree(naiveTree))
  /\ \E l \in renderTree(naiveTree) : Len(l[1]) >= 3

(* ============================= MerkleTree =============================== *)
(* A hashable is a record with the properties the object has: a constant   *)
(* hashable has `hash`, a MerkleTree has `hashableElements`.               *)
KeySeq == <<"bar", "foo", "qwe", "xyz">>
Keys == {KeySeq[i] : i \in 1..NumKeys}
LeafHashSeq == <<"asdf", "xyz", "qwe">>
LeafHashes == {LeafHashSeq[i] : i \in 1..NumLeafHashes}

outsideMerkle == <<gvars, qvars, exitCode, pc, kvars, svars, ovars, hvars, wvars, evars, bvars, fvars, iovars, dvars, nvars, lvars, xvars>>

(* constantHashable(hash) *)
constantHashable(hash) == [hash |-> hash]

(* new MerkleTree(elements) *)
MerkleTree(elements) == [hashableElements |-> elements]

(* isDirectlyHashable(h): 'hash' in h *)
isDirectlyHashable(h) == "hash" \in DOMAIN h

(* isMerkleTree(h): 'elements' in h *)
isMerkleTree(h) == "elements" \in DOMAIN h

(* Object.keys(elements).sort() *)
sortedKeys(elements) == SelectSeq(KeySeq, LAMBDA k : k \in DOMAIN elements)

(* standardHash().update(text).digest('hex'): SHA-1, taken as free of      *)
(* collisions.                                                             *)
standardHash(text) == "sha1(" \o text \o ")"

(* MerkleTree.hashTree(tree) *)
RECURSIVE hashTree(_)
RECURSIVE hashUpdates(_, _)

hashUpdates(elements, keys) ==
  IF keys = <<>> THEN ""
  ELSE Head(keys) \o "=" \o hashTree(elements[Head(keys)]) \o "\n"
         \o hashUpdates(elements, Tail(keys))

hashTree(tree) ==
  IF isDirectlyHashable(tree) THEN tree.hash
  ELSE standardHash(hashUpdates(tree.hashableElements,
                                sortedKeys(tree.hashableElements)))

(* MerkleTree.serialize(x, maxDepth); a string s is held as [string |-> s] *)
RECURSIVE serialize(_, _)

serialize_NoElements(x, depth) ==
  IF isDirectlyHashable(x) \/ (depth # <<>> /\ depth[1] <= 0)
    THEN [string |-> hashTree(x)]
    ELSE [hash |-> hashTree(x), elements |-> <<>>]

serialize(x, depth) ==
  IF isDirectlyHashable(x) \/ (depth # <<>> /\ depth[1] <= 0)
    THEN [string |-> hashTree(x)]
    ELSE LET nextDepth == IF depth # <<>> THEN <<depth[1] - 1>> ELSE <<>>
         IN [hash |-> hashTree(x),
             elements |-> [k \in DOMAIN x.hashableElements |->
                             serialize(x.hashableElements[k], nextDepth)]]

(* MerkleTree.deserialize(x) *)
Thrown == [error |-> "Something is wrong, hashes do not match"]

RECURSIVE deserialize(_)
deserialize(x) ==
  IF "string" \in DOMAIN x THEN constantHashable(x.string)
  ELSE LET children == [k \in DOMAIN x.elements |-> deserialize(x.elements[k])]
       IN IF \E k \in DOMAIN children : children[k] = Thrown THEN Thrown
          ELSE IF hashTree(MerkleTree(children)) # x.hash THEN Thrown
          ELSE MerkleTree(children)

(* MerkleTree.compare(a, b): the differences, in the order they are pushed. *)
NoElements == <<>>

RECURSIVE recurse(_, _, _)
RECURSIVE recurseKeys(_, _, _, _)

recurseKeys(xs, ys, keys, path) ==
  IF keys = <<>> THEN <<>>
  ELSE LET key == Head(keys)
           xHash == hashTree(xs[key])
           rest == recurseKeys(xs, ys, Tail(keys), path)
       IN IF key \notin DOMAIN ys
            THEN <<[type |-> "remove", path |-> Append(path, key), oldHash |-> xHash]>>
                   \o rest
          ELSE IF xHash # hashTree(ys[key])
            THEN (IF isMerkleTree(xs[key]) /\ isMerkleTree(ys[key])
                    THEN recurse(xs[key], ys[key], Append(path, key))
                    ELSE <<[type |-> "change", path |-> Append(path, key),
                            oldHash |-> xHash, newHash |-> hashTree(ys[key])]>>)
                   \o rest
          ELSE rest

recurse(x, y, path) ==
  IF /\ isDirectlyHashable(x)
     /\ isDirectlyHashable(y)
     /\ hashTree(x) # hashTree(y)
    THEN <<[type |-> "change", path |-> path,
            oldHash |-> hashTree(x), newHash |-> hashTree(y)]>>
    ELSE LET xs == IF isMerkleTree(x) THEN x.hashableElements ELSE NoElements
             ys == IF isMerkleTree(y) THEN y.hashableElements ELSE NoElements
             added == SelectSeq(sortedKeys(ys), LAMBDA k : k \notin DOMAIN xs)
         IN recurseKeys(xs, ys, sortedKeys(xs), path)
              \o [i \in DOMAIN added |->
                    [type |-> "add", path |-> Append(path, added[i]),
                     newHash |-> hashTree(ys[added[i]])]]

compare(x, y) ==
  LET differences == recurse(x, y, <<>>)
  IN IF Len(differences) > 0
       THEN [result |-> "different", differences |-> differences]
       ELSE [result |-> "same", differences |-> <<>>]

(* ------------------------------ the inputs ------------------------------ *)
(* The hashables made of at most n objects: constants and MerkleTrees.     *)
RECURSIVE size(_)
RECURSIVE sumSizes(_, _)
sumSizes(elements, keys) ==
  IF keys = <<>> THEN 0
  ELSE size(elements[Head(keys)]) + sumSizes(elements, Tail(keys))

size(tree) ==
  IF isDirectlyHashable(tree) THEN 1
  ELSE 1 + sumSizes(tree.hashableElements, sortedKeys(tree.hashableElements))

RECURSIVE Hashables(_)
Hashables(n) ==
  IF n <= 0 THEN {}
  ELSE {constantHashable(h) : h \in LeafHashes}
       \cup {MerkleTree(NoElements)}
       \cup UNION { {MerkleTree(elements) :
                       elements \in {f \in [S -> Hashables(n - Cardinality(S))] :
                                       1 + sumSizes(f, sortedKeys(f)) <= n}} :
                    S \in (SUBSET Keys) \ {{}} }

Depths == {<<>>} \cup {<<d>> : d \in 0..MaxHashables}

(* ------------------------- serialize, deserialize ----------------------- *)
SerializeInit ==
  /\ CachesIdle
  /\ MirrorIdle
  /\ BinLinksIdle
  /\ DependenciesIdle
  /\ DirectoryIdle
  /\ PoolIdle
  /\ SidecarIdle
  /\ SandboxesIdle
  /\ EnvironmentIdle
  /\ WorkspaceIdle
  /\ maxSizeMB = TRUE
  /\ CleaningIdle
  /\ HoistIdle
  /\ treeA \in Hashables(MaxHashables)
  /\ treeB = Nothing
  /\ maxDepth \in Depths
  /\ serialized = Nothing
  /\ reconstructed = Nothing
  /\ comparison = Nothing
  /\ merklePc = "start"

Serialize ==
  /\ merklePc = "start"
  /\ serialized' = serialize(treeA, maxDepth)
  /\ merklePc' = "serialized"
  /\ UNCHANGED <<outsideMerkle, treeA, treeB, maxDepth, reconstructed, comparison>>

Deserialize ==
  /\ merklePc = "serialized"
  /\ reconstructed' = deserialize(serialized)
  /\ merklePc' = "deserialized"
  /\ UNCHANGED <<outsideMerkle, treeA, treeB, maxDepth, serialized, comparison>>

SerializeNext ==
  \/ Serialize
  \/ Deserialize

SerializeSpec == SerializeInit /\ [][SerializeNext]_vars

(* -------------------------------- compare ------------------------------- *)
CompareInit ==
  /\ CachesIdle
  /\ MirrorIdle
  /\ BinLinksIdle
  /\ DependenciesIdle
  /\ DirectoryIdle
  /\ PoolIdle
  /\ SidecarIdle
  /\ SandboxesIdle
  /\ EnvironmentIdle
  /\ WorkspaceIdle
  /\ maxSizeMB = TRUE
  /\ CleaningIdle
  /\ HoistIdle
  /\ treeA \in Hashables(MaxHashables)
  /\ treeB \in Hashables(MaxHashables)
  /\ maxDepth = <<>>
  /\ serialized = Nothing
  /\ reconstructed = Nothing
  /\ comparison = Nothing
  /\ merklePc = "start"

Compare ==
  /\ merklePc = "start"
  /\ comparison' = compare(treeA, treeB)
  /\ merklePc' = "compared"
  /\ UNCHANGED <<outsideMerkle, treeA, treeB, maxDepth, serialized, reconstructed>>

CompareNext ==
  \/ Compare

CompareSpec == CompareInit /\ [][CompareNext]_vars

(* The differences the comparison of two hashables is to hold. *)
RECURSIVE expected(_, _, _)
expected(x, y, path) ==
  IF hashTree(x) = hashTree(y) THEN {}
  ELSE IF isDirectlyHashable(x) \/ isDirectlyHashable(y)
    THEN {[type |-> "change", path |-> path,
           oldHash |-> hashTree(x), newHash |-> hashTree(y)]}
  ELSE LET xs == x.hashableElements
           ys == y.hashableElements
       IN UNION {
            {[type |-> "remove", path |-> Append(path, k), oldHash |-> hashTree(xs[k])] :
               k \in DOMAIN xs \ DOMAIN ys},
            {[type |-> "add", path |-> Append(path, k), newHash |-> hashTree(ys[k])] :
               k \in DOMAIN ys \ DOMAIN xs},
            UNION {expected(xs[k], ys[k], Append(path, k)) :
                     k \in DOMAIN xs \cap DOMAIN ys} }

(* C19: compare(A, B) is 'same' exactly when the hashes are equal; else it *)
(* is 'different' with a non-empty list: an 'add' for each key only in B,  *)
(* a 'remove' for each key only in A, and for each common key with         *)
(* different hashes the differences below it when both children are       *)
(* composite, a 'change' at its path otherwise.                            *)
C19_Compare ==
  merklePc = "compared" =>
    /\ comparison.result = "same" <=> hashTree(treeA) = hashTree(treeB)
    /\ hashTree(treeA) # hashTree(treeB) =>
         /\ comparison.result = "different"
         /\ comparison.differences # <<>>
         /\ Range(comparison.differences) = expected(treeA, treeB, <<>>)

(* What the code has: only two constants with different hashes differ. *)
C19_AsCoded ==
  merklePc = "compared" =>
    (comparison.result = "different" <=>
       /\ isDirectlyHashable(treeA)
       /\ isDirectlyHashable(treeB)
       /\ hashTree(treeA) # hashTree(treeB))

(* C20: for every tree and every depth, no depth included,                 *)
(* deserialize(serialize(T, d)) does not throw and has the hash of T.      *)
C20_RoundTrip ==
  merklePc = "deserialized" =>
    /\ reconstructed # Thrown
    /\ hashTree(reconstructed) = hashTree(treeA)

C20_Witness ==
  /\ merklePc = "deserialized"
  /\ maxDepth = <<1>>
  /\ ~isDirectlyHashable(treeA)
  /\ \E k \in DOMAIN treeA.hashableElements :
       /\ ~isDirectlyHashable(treeA.hashableElements[k])
       /\ isDirectlyHashable(reconstructed.hashableElements[k])
  /\ hashTree(reconstructed) = hashTree(treeA)

(* C24: the pool never runs more than maxN of the operations queued on it *)
(* at the same time, however queueing and settling interleave.             *)
C24_PoolBounded == poolActive <= maxN

C24_Witness ==
  /\ poolActive = maxN
  /\ poolQueued > 0
  /\ made > maxN

(* ------------- hermetic and non-hermetic package builds ---------------- *)
(* Workspace.npmPackageBuild(dir) creates the build of a monorepo package  *)
(* from its package.json and from the dependency inputs of the packages it *)
(* names; the dependency input of a monorepo package is created from that  *)
(* package's build.  A directory stands for the package found in it.       *)
Dirs == 1..NumDirs

outsideWorkspace == <<gvars, qvars, exitCode, pc, kvars, svars, ovars, hvars, mvars, evars, bvars, fvars, iovars, dvars, nvars, lvars, xvars>>

Undefined == "undefined"

(* isMonoRepoPackage(packageDirectory): the path holds no node_modules.    *)
isMonoRepoPackage(pjs, dir) == pjs[dir].monoRepo

(* npmBuildDependencies(pj): the packages named by dependencies and by     *)
(* devDependencies, each as the directory findNpmPackage resolves it to.   *)
npmBuildDependencies(pj) == pj.dependencies

(* NpmDependencyInput.fromDirectory: the variant created for a directory.  *)
NpmDependencyInput_fromDirectory(pjs, builds, dir) ==
  IF isMonoRepoPackage(pjs, dir)
    THEN IF builds[dir] = "NozemNpmPackageBuild"
           THEN "MonoRepoBuildDependencyInput"
           ELSE "MonoRepoInPlaceBuildDependencyInput"
    ELSE "NpmRegistryDependencyInput"

(* NpmDependencyInput.isHashable, a constant of each variant. *)
isHashable(input) ==
  input \in {"NpmRegistryDependencyInput", "MonoRepoBuildDependencyInput"}

NpmPackageBuild_fromDirectory_IgnoreDependencies(pj, inputs) ==
  IF pj.nozem = FALSE THEN "NonHermeticNpmPackageBuild" ELSE "NozemNpmPackageBuild"

(* NpmPackageBuild.fromDirectory: the class of build created. *)
NpmPackageBuild_fromDirectory(pj, inputs) ==
  IF pj.nozem = FALSE
    THEN "NonHermeticNpmPackageBuild"
    ELSE IF \E dn \in npmBuildDependencies(pj) : ~isHashable(inputs[dn])
           THEN "NonHermeticNpmPackageBuild"
           ELSE "NozemNpmPackageBuild"

(* The workspaces: every directory is a monorepo package or a package      *)
(* under node_modules, a monorepo package may set "nozem": false, and the  *)
(* dependencies form no cycle (a package names later directories only).    *)
WorkspaceInit ==
  /\ CachesIdle
  /\ MirrorIdle
  /\ BinLinksIdle
  /\ DependenciesIdle
  /\ DirectoryIdle
  /\ PoolIdle
  /\ SidecarIdle
  /\ SandboxesIdle
  /\ EnvironmentIdle
  /\ maxSizeMB = TRUE
  /\ CleaningIdle
  /\ HoistIdle
  /\ MerkleIdle
  /\ \E mono \in [Dirs -> BOOLEAN], enabled \in [Dirs -> BOOLEAN],
        deps \in [Dirs -> SUBSET Dirs] :
       /\ \A d \in Dirs : \A e \in deps[d] : e > d
       /\ \A d \in Dirs : ~mono[d] => enabled[d]
       /\ packageJsons = [d \in Dirs |->
            [monoRepo |-> mono[d], nozem |-> enabled[d], dependencies |-> deps[d]]]
  /\ packageBuildCache = [d \in Dirs |-> Undefined]
  /\ objectCache = [d \in Dirs |-> Undefined]

(* NpmDependencyInput.fromDirectory(workspace, dir) resolves: for a        *)
(* monorepo package, once workspace.npmPackageBuild(dir) has resolved.     *)
CreateDependencyInput(dir) ==
  /\ objectCache[dir] = Undefined
  /\ isMonoRepoPackage(packageJsons, dir) => packageBuildCache[dir] # Undefined
  /\ objectCache' = [objectCache EXCEPT ![dir] =
       NpmDependencyInput_fromDirectory(packageJsons, packageBuildCache, dir)]
  /\ UNCHANGED <<packageJsons, packageBuildCache, outsideWorkspace>>

(* workspace.npmPackageBuild(dir) resolves, once the dependency input of   *)
(* every build dependency has been created.                                *)
CreatePackageBuild(dir) ==
  /\ isMonoRepoPackage(packageJsons, dir)
  /\ packageBuildCache[dir] = Undefined
  /\ \A dn \in npmBuildDependencies(packageJsons[dir]) : objectCache[dn] # Undefined
  /\ packageBuildCache' = [packageBuildCache EXCEPT ![dir] =
       NpmPackageBuild_fromDirectory(packageJsons[dir], objectCache)]
  /\ UNCHANGED <<packageJsons, objectCache, outsideWorkspace>>

WorkspaceNext ==
  \/ \E dir \in Dirs : CreateDependencyInput(dir)
  \/ \E dir \in Dirs : CreatePackageBuild(dir)

WorkspaceSpec == WorkspaceInit /\ [][WorkspaceNext]_vars

(* Vocabulary of the claims. *)
Hermetic(dir) == packageBuildCache[dir] = "NozemNpmPackageBuild"
NonHermetic(dir) == packageBuildCache[dir] = "NonHermeticNpmPackageBuild"
DependencyEdges == {e \in Dirs \X Dirs : e[2] \in packageJsons[e[1]].dependencies}
MonoRepoEdges ==
  {e \in DependencyEdges : isMonoRepoPackage(packageJsons, e[1])
                            /\ isMonoRepoPackage(packageJsons, e[2])}
AllBuildsCreated ==
  \A d \in Dirs : isMonoRepoPackage(packageJsons, d) => packageBuildCache[d] # Undefined

outsideEnvironment == <<gvars, qvars, exitCode, pc, kvars, svars, ovars, hvars, mvars, wvars, bvars, fvars, iovars, dvars, nvars, lvars, xvars>>

EnvKeys == {<<k>> : k \in Keys} \cup {<<"&", k>> : k \in Keys}
EnvValues == LeafHashes

(* k.startsWith('&') *)
startsWithAmpersand(k) == k # <<>> /\ Head(k) = "&"

(* The key as the string it is. *)
RECURSIVE keyString(_)
keyString(k) == IF k = <<>> THEN "" ELSE Head(k) \o keyString(Tail(k))

(* ret[k] = v on the entries of ret: an existing key keeps its place. *)
assign(ret, k, v) ==
  IF \E i \in DOMAIN ret : ret[i][1] = k
    THEN [i \in DOMAIN ret |-> IF ret[i][1] = k THEN <<k, v>> ELSE ret[i]]
    ELSE Append(ret, <<k, v>>)

(* mkdict(xs) *)
RECURSIVE mkdictFrom(_, _)
mkdictFrom(ret, xs) ==
  IF xs = <<>> THEN ret
  ELSE mkdictFrom(assign(ret, Head(xs)[1], Head(xs)[2]), Tail(xs))

mkdict(xs) == mkdictFrom(<<>>, xs)

(* removeAmpersands(xs) *)
removeAmpersands(xs) ==
  mkdict([i \in DOMAIN xs |->
    <<IF startsWithAmpersand(xs[i][1]) THEN Tail(xs[i][1]) ELSE xs[i][1], xs[i][2]>>])

(* removeHiddenKeys(xs) *)
removeHiddenKeys(xs) ==
  mkdict(SelectSeq(xs, LAMBDA e : ~startsWithAmpersand(e[1])))

(* MerkleTree.fromDict(d) *)
fromDict(d) ==
  MerkleTree([k \in {keyString(d[i][1]) : i \in DOMAIN d} |->
    constantHashable(d[CHOOSE i \in DOMAIN d : keyString(d[i][1]) = k][2])])

(* BuildDirectory.execute: { PATH: this.binDir, ...baseEnv } *)
executeEnv(baseEnv) == mkdict(<<<<<<"PATH">>, "bin">>>> \o baseEnv)

(* The environments determineEnv can return: up to MaxEnvEntries entries   *)
(* with distinct keys, in any order.                                       *)
Envs(n) ==
  UNION {{e \in [1..len -> EnvKeys \X EnvValues] :
            \A i, j \in 1..len : i # j => e[i][1] # e[j][1]} : len \in 0..n}

EnvironmentInit ==
  /\ CachesIdle
  /\ MirrorIdle
  /\ BinLinksIdle
  /\ DependenciesIdle
  /\ DirectoryIdle
  /\ PoolIdle
  /\ SidecarIdle
  /\ SandboxesIdle
  /\ maxSizeMB = TRUE
  /\ CleaningIdle
  /\ HoistIdle
  /\ MerkleIdle
  /\ WorkspaceIdle
  /\ envs \in [1..2 -> Envs(MaxEnvEntries)]
  /\ envHash = [p \in 1..2 |-> Nothing]
  /\ commandEnv = [p \in 1..2 |-> Nothing]

(* NpmPackageBuild.fromDirectory builds the merkle tree of package p; its  *)
(* env element contributes its hash to the input hash.                     *)
HashEnv(p) ==
  /\ envHash[p] = Nothing
  /\ envHash' = [envHash EXCEPT ![p] = <<hashTree(fromDict(removeHiddenKeys(envs[p])))>>]
  /\ UNCHANGED <<envs, commandEnv, outsideEnvironment>>

(* doBuild of package p runs the build command. *)
ExecuteBuildCommand(p) ==
  /\ envHash[p] # Nothing
  /\ commandEnv[p] = Nothing
  /\ commandEnv' = [commandEnv EXCEPT ![p] = <<executeEnv(removeAmpersands(envs[p]))>>]
  /\ UNCHANGED <<envs, envHash, outsideEnvironment>>

EnvironmentNext ==
  \/ \E p \in 1..2 : HashEnv(p)
  \/ \E p \in 1..2 : ExecuteBuildCommand(p)

EnvironmentSpec == EnvironmentInit /\ [][EnvironmentNext]_vars

(* Vocabulary of the claim. *)
hiddenEntries(env) == {env[i] : i \in {j \in DOMAIN env : Head(env[j][1]) = "&"}}
visibleEntries(env) == {env[i] : i \in {j \in DOMAIN env : Head(env[j][1]) # "&"}}
received(cmdEnv, k) == {cmdEnv[i][2] : i \in {j \in DOMAIN cmdEnv : cmdEnv[j][1] = k}}

(* The first half of the claim: two packages whose environments differ only in entries *)
(* whose key starts with "&" have the same hash of the environment.        *)
HashIgnoresHiddenEntries ==
  \A p, q \in 1..2 :
    (envHash[p] # Nothing /\ envHash[q] # Nothing
       /\ visibleEntries(envs[p]) = visibleEntries(envs[q]))
      => envHash[p] = envHash[q]

(* C22: two packages whose environments differ only in entries whose key   *)
(* starts with "&" have the same hash, and the build command receives each *)
(* such entry under its key without the "&".                               *)
C22_HiddenKeys ==
  /\ HashIgnoresHiddenEntries
  /\ \A p \in 1..2 : commandEnv[p] # Nothing =>
       \A e \in hiddenEntries(envs[p]) : received(commandEnv[p][1], Tail(e[1])) = {e[2]}

(* ------------------------ BuildDirectory.with -------------------------- *)
(* The files under os.tmpdir() are held as a function from the paths that  *)
(* exist to "dir" or "file"; a path is the sequence of its components.     *)
outsideSandboxes == <<gvars, qvars, exitCode, pc, kvars, svars, ovars, hvars, mvars, wvars, evars, fvars, iovars, dvars, nvars, lvars, xvars>>

WithCalls == 1..MaxSandboxes
TmpNames == <<"nzmbA", "nzmbB", "nzmbC", "nzmbD">>
FnValues == {"artifacts", "files"}
FnErrors == {"build failed", "test failed"}

(* fs.readdir(x), as full paths *)
readdir(fs, x) ==
  {p \in DOMAIN fs : Len(p) = Len(x) + 1 /\ SubSeq(p, 1, Len(x)) = x}

(* fs.rmdir(x) and fs.unlink(x) *)
remove(fs, x) == [p \in DOMAIN fs \ {x} |-> fs[p]]

(* fs.mkdir(x) and fs.writeFile(x, '') *)
create(fs, x, kind) == [p \in DOMAIN fs \cup {x} |-> IF p = x THEN kind ELSE fs[p]]

RECURSIVE rimraf(_, _)
RECURSIVE rimrafChildren(_, _)

rimraf_NoRmdir(fs, x) ==
  IF x \notin DOMAIN fs THEN fs
  ELSE IF fs[x] = "dir" THEN rimrafChildren(fs, readdir(fs, x))
  ELSE remove(fs, x)

(* rimraf(x): the files that exist afterwards *)
rimraf(fs, x) ==
  IF x \notin DOMAIN fs THEN fs
  ELSE IF fs[x] = "dir" THEN remove(rimrafChildren(fs, readdir(fs, x)), x)
  ELSE remove(fs, x)

rimrafChildren(fs, children) ==
  IF children = {} THEN fs
  ELSE LET child == CHOOSE c \in children : TRUE
       IN  rimrafChildren(rimraf(fs, child), children \ {child})

(* BuildDirectory.touchFile(relativePath) on a file that does not exist *)
touchFile(fs, directory, relativePath) ==
  create(create(fs, directory \o <<"src">>, "dir"),
         directory \o <<"src", relativePath>>, "file")

SandboxInit ==
  /\ CachesIdle
  /\ MirrorIdle
  /\ BinLinksIdle
  /\ DependenciesIdle
  /\ DirectoryIdle
  /\ PoolIdle
  /\ SidecarIdle
  /\ EnvironmentIdle
  /\ maxSizeMB = TRUE
  /\ CleaningIdle
  /\ HoistIdle
  /\ MerkleIdle
  /\ WorkspaceIdle
  /\ tmpdir = <<>>
  /\ mkdtemps = 0
  /\ withPc = [c \in WithCalls |-> "idle"]
  /\ withDir = [c \in WithCalls |-> <<>>]
  /\ fnOutcome = [c \in WithCalls |-> Nothing]
  /\ withOutcome = [c \in WithCalls |-> Nothing]
  /\ warnings = {}

(* BuildDirectory.with(fn) is called: make() creates a fresh directory and *)
(* fn(be) is started.                                                      *)
With(c) ==
  /\ withPc[c] = "idle"
  /\ LET directory == <<TmpNames[mkdtemps + 1]>>
     IN  /\ tmpdir' = create(tmpdir, directory, "dir")
         /\ withDir' = [withDir EXCEPT ![c] = directory]
  /\ mkdtemps' = mkdtemps + 1
  /\ withPc' = [withPc EXCEPT ![c] = "fn"]
  /\ UNCHANGED <<fnOutcome, withOutcome, warnings, outsideSandboxes>>

(* fn(be) writes into the sandbox: buildDir.touchFile('.nzmroot'). *)
FnTouchFile(c) ==
  /\ withPc[c] = "fn"
  /\ withDir[c] \o <<"src">> \notin DOMAIN tmpdir
  /\ tmpdir' = touchFile(tmpdir, withDir[c], ".nzmroot")
  /\ UNCHANGED <<mkdtemps, withPc, withDir, fnOutcome, withOutcome, warnings, outsideSandboxes>>

(* fn(be) returns v. *)
FnReturns(c, v) ==
  /\ withPc[c] = "fn"
  /\ fnOutcome' = [fnOutcome EXCEPT ![c] = <<"returned", v>>]
  /\ withPc' = [withPc EXCEPT ![c] = "cleanup"]
  /\ UNCHANGED <<tmpdir, mkdtemps, withDir, withOutcome, warnings, outsideSandboxes>>

(* await be.cleanup(); return ret *)
Cleanup(c) ==
  /\ withPc[c] = "cleanup"
  /\ tmpdir' = rimraf(tmpdir, withDir[c])
  /\ withOutcome' = [withOutcome EXCEPT ![c] = <<"resolved", fnOutcome[c][2]>>]
  /\ withPc' = [withPc EXCEPT ![c] = "done"]
  /\ UNCHANGED <<mkdtemps, withDir, fnOutcome, warnings, outsideSandboxes>>

(* fn(be) throws e: the catch block logs the directory and throws e. *)
FnThrows(c, e) ==
  /\ withPc[c] = "fn"
  /\ fnOutcome' = [fnOutcome EXCEPT ![c] = <<"threw", e>>]
  /\ warnings' = warnings \cup {withDir[c]}
  /\ withOutcome' = [withOutcome EXCEPT ![c] = <<"rejected", e>>]
  /\ withPc' = [withPc EXCEPT ![c] = "done"]
  /\ UNCHANGED <<tmpdir, mkdtemps, withDir, outsideSandboxes>>

SandboxNext ==
  \/ \E c \in WithCalls : With(c)
  \/ \E c \in WithCalls : FnTouchFile(c)
  \/ \E c \in WithCalls, v \in FnValues : FnReturns(c, v)
  \/ \E c \in WithCalls : Cleanup(c)
  \/ \E c \in WithCalls, e \in FnErrors : FnThrows(c, e)

SandboxSpec == SandboxInit /\ [][SandboxNext]_vars

(* Vocabulary of the claim. *)
Under(fs, x) == {p \in DOMAIN fs : Len(p) >= Len(x) /\ SubSeq(p, 1, Len(x)) = x}

(* C23: when fn returned normally, with(fn) resolves with fn's result and  *)
(* the sandbox directory is gone; when fn threw, with(fn) rejects with the *)
(* same error and the sandbox directory, with what fn wrote, stays.        *)
C23_WithCleansUpOnSuccessOnly ==
  /\ [](\A c \in WithCalls :
          /\ withPc[c] = "done" =>
               /\ fnOutcome[c][1] = "returned" =>
                    /\ withOutcome[c] = <<"resolved", fnOutcome[c][2]>>
                    /\ Under(tmpdir, withDir[c]) = {}
               /\ fnOutcome[c][1] = "threw" =>
                    /\ withOutcome[c] = <<"rejected", fnOutcome[c][2]>>
                    /\ withDir[c] \in warnings
          /\ withPc[c] \in {"fn", "cleanup"} =>
               /\ withOutcome[c] = Nothing
               /\ withDir[c] \in DOMAIN tmpdir)
  /\ [][\A c \in WithCalls :
          (withPc[c] = "done" /\ fnOutcome[c][1] = "threw")
            => /\ withDir[c] \in DOMAIN tmpdir
               /\ Under(tmpdir', withDir[c]) = Under(tmpdir, withDir[c])]_vars

C23_Witness ==
  \E c, d \in WithCalls :
    /\ withOutcome[c] = <<"resolved", "artifacts">>
    /\ withOutcome[d] = <<"rejected", "test failed">>
    /\ DOMAIN tmpdir = {withDir[d], withDir[d] \o <<"src">>,
                        withDir[d] \o <<"src", ".nzmroot">>}

(* -------------------- writing the in-place sidecar --------------------- *)
(* The bytes of a file are held as a sequence of pieces of text; a file    *)
(* that exists is held as <<bytes>>.                                       *)
outsideSidecar == <<gvars, qvars, exitCode, pc, kvars, svars, ovars, hvars, mvars, wvars, evars, bvars, iovars, dvars, nvars, lvars, xvars>>

(* BuildCacheSchema, reduced to the two hashes that decide a hit. *)
BuildCacheSchemas == [inputTree : LeafHashes, artifactHash : LeafHashes]

(* JSON.stringify(obj, undefined, 2) *)
stringify(obj) ==
  <<"{", "inputTree: " \o obj.inputTree, "artifactHash: " \o obj.artifactHash, "}">>

SyntaxError == [error |-> "SyntaxError"]
NoFile == [undefined |-> TRUE]

(* JSON.parse(text) *)
parse(text) ==
  IF \E obj \in BuildCacheSchemas : stringify(obj) = text
    THEN CHOOSE obj \in BuildCacheSchemas : stringify(obj) = text
    ELSE SyntaxError

(* readJsonIfExists(filename) *)
readJsonIfExists(file) == IF file = <<>> THEN NoFile ELSE parse(file[1])

SidecarInit ==
  /\ CachesIdle
  /\ MirrorIdle
  /\ BinLinksIdle
  /\ DependenciesIdle
  /\ DirectoryIdle
  /\ PoolIdle
  /\ EnvironmentIdle
  /\ SandboxesIdle
  /\ maxSizeMB = TRUE
  /\ CleaningIdle
  /\ HoistIdle
  /\ MerkleIdle
  /\ WorkspaceIdle
  /\ cacheFile = <<>>
  /\ writeFile = <<>>
  /\ lastRead = Nothing
  /\ process = 1

(* storeInPlaceCache: writeJson calls fs.writeFile(filename, data), which  *)
(* opens the file with flag 'w': it is created or truncated.               *)
StoreInPlaceCacheOpen(obj) ==
  /\ writeFile = <<>>
  /\ writeFile' = <<stringify(obj)>>
  /\ cacheFile' = <<<<>>>>
  /\ UNCHANGED <<lastRead, process, outsideSidecar>>

(* fs.writeFile writes the next part of the data. *)
WriteData ==
  /\ writeFile # <<>>
  /\ Len(cacheFile[1]) < Len(writeFile[1])
  /\ cacheFile' = <<Append(cacheFile[1], writeFile[1][Len(cacheFile[1]) + 1])>>
  /\ UNCHANGED <<writeFile, lastRead, process, outsideSidecar>>

(* All data is written: the file is closed and writeJson resolves. *)
WriteClose ==
  /\ writeFile # <<>>
  /\ cacheFile[1] = writeFile[1]
  /\ writeFile' = <<>>
  /\ UNCHANGED <<cacheFile, lastRead, process, outsideSidecar>>

(* inPlaceCacheLookup of this or of another nozem process reads the file. *)
ReadSidecar ==
  /\ lastRead' = readJsonIfExists(cacheFile)
  /\ lastRead' # lastRead
  /\ UNCHANGED <<cacheFile, writeFile, process, outsideSidecar>>

(* The process is interrupted; nozem is run again. *)
Interrupt ==
  /\ process < MaxRuns
  /\ process' = process + 1
  /\ writeFile' = <<>>
  /\ lastRead' = Nothing
  /\ UNCHANGED <<cacheFile, outsideSidecar>>

SidecarNext ==
  \/ \E obj \in BuildCacheSchemas : StoreInPlaceCacheOpen(obj)
  \/ WriteData
  \/ WriteClose
  \/ ReadSidecar
  \/ Interrupt

SidecarSpec == SidecarInit /\ [][SidecarNext]_vars

(* C30: whoever reads the sidecar, while it is being written or in a run   *)
(* that follows an interrupted write, finds no file or a whole sidecar,    *)
(* never a partly written one.                                             *)
C30_SidecarWrittenAtomically ==
  lastRead # Nothing => lastRead \in BuildCacheSchemas \cup {NoFile}

(* ======================= PROMISE_POOL and fileHash ====================== *)
(* What a step of the I/O pool leaves alone. *)
outsidePool == <<gvars, qvars, exitCode, pc, kvars, svars, ovars, hvars, mvars, wvars, evars, bvars, fvars, dvars, nvars, lvars, xvars>>

(* One artifact file per store. *)
PoolFiles == 1..MaxPoolStores

(* hashCache.get(fullPath): no promise, or one that resolved earlier; a    *)
(* positive number is the thunk in _queue whose promise the cache holds.   *)
NoPromise == 0
Resolved == -1

PoolInit ==
  /\ CachesIdle
  /\ MirrorIdle
  /\ BinLinksIdle
  /\ DependenciesIdle
  /\ DirectoryIdle
  /\ SidecarIdle
  /\ SandboxesIdle
  /\ EnvironmentIdle
  /\ WorkspaceIdle
  /\ maxSizeMB = TRUE
  /\ CleaningIdle
  /\ HoistIdle
  /\ MerkleIdle
  /\ _queue = <<>>
  /\ hashCache \in [PoolFiles -> {NoPromise, Resolved}]

(* this.active: the thunks started and not settled. *)
nActive(q) == Cardinality({t \in DOMAIN q : q[t].at \in {"tar", "hashOf", "lstat"}})

Waiting(q) == {t \in DOMAIN q : q[t].at = "queued"}

(* PromisePool.launchMore(): the first queued thunk is started when fewer  *)
(* than maxN are active.                                                   *)
poolLaunchMore(q) ==
  IF nActive(q) >= maxN \/ Waiting(q) = {} THEN q
  ELSE LET next == CHOOSE t \in Waiting(q) : \A u \in Waiting(q) : t <= u
       IN [q EXCEPT ![next].at = IF q[next].kind = "store" THEN "tar" ELSE "lstat"]

(* PromisePool.queue(pThunk) *)
queue(q, kind, file) ==
  poolLaunchMore(Append(q, [kind |-> kind, file |-> file, at |-> "queued",
                            awaiting |-> NoPromise]))

(* fileHash(fullPath): the cached promise, or a new thunk on the pool      *)
(* whose promise is cached. Gives the queue, the cache and the promise.    *)
fileHash(q, cache, file) ==
  IF cache[file] # NoPromise
    THEN [q |-> q, cache |-> cache, promise |-> cache[file]]
    ELSE [q |-> queue(q, "hash", file),
          cache |-> [cache EXCEPT ![file] = Len(q) + 1],
          promise |-> Len(q) + 1]

(* A promise that has resolved. *)
IsResolved(q, promise) ==
  IF promise = Resolved THEN TRUE ELSE q[promise].at = "settled"

(* DirectoryCache.queueForStoring(pv, files): the store is handed to the   *)
(* pool.                                                                   *)
PoolQueueForStoring(file) ==
  /\ file = Cardinality({t \in DOMAIN _queue : _queue[t].kind = "store"}) + 1
  /\ _queue' = queue(_queue, "store", file)
  /\ UNCHANGED <<outsidePool, hashCache>>

(* The store has written the tarball and comes to `await hashOf(files)`,   *)
(* which asks fileHash for the hash of the file; or tar.c failed and the   *)
(* thunk rejects.                                                          *)
TarDone(t, ok) ==
  /\ t \in DOMAIN _queue /\ _queue[t].at = "tar"
  /\ IF ok
       THEN LET r == fileHash(_queue, hashCache, _queue[t].file)
            IN /\ _queue' = [r.q EXCEPT ![t].at = "hashOf", ![t].awaiting = r.promise]
               /\ hashCache' = r.cache
       ELSE /\ _queue' = poolLaunchMore([_queue EXCEPT ![t].at = "settled"])
            /\ UNCHANGED hashCache
  /\ UNCHANGED outsidePool

(* The hash the store waits for is there: the index is written and the     *)
(* thunk settles, and finally() starts the next thunk.                     *)
HashOfDone(t) ==
  /\ t \in DOMAIN _queue /\ _queue[t].at = "hashOf"
  /\ IsResolved(_queue, _queue[t].awaiting)
  /\ _queue' = poolLaunchMore([_queue EXCEPT ![t].at = "settled"])
  /\ UNCHANGED <<outsidePool, hashCache>>

(* The thunk of fileHash has read and hashed the file. *)
FileHashed(t) ==
  /\ t \in DOMAIN _queue /\ _queue[t].at = "lstat"
  /\ _queue' = poolLaunchMore([_queue EXCEPT ![t].at = "settled"])
  /\ UNCHANGED <<outsidePool, hashCache>>

(* TEST_clearFileHashCache(), which build() calls after every build. *)
TEST_clearFileHashCache ==
  /\ \E f \in PoolFiles : hashCache[f] # NoPromise
  /\ hashCache' = [f \in PoolFiles |-> NoPromise]
  /\ UNCHANGED <<outsidePool, _queue>>

PoolNext ==
  \/ \E file \in PoolFiles : PoolQueueForStoring(file)
  \/ \E t \in 1..(2 * MaxPoolStores) : \E ok \in BOOLEAN : TarDone(t, ok)
  \/ \E t \in 1..(2 * MaxPoolStores) : HashOfDone(t)
  \/ \E t \in 1..(2 * MaxPoolStores) : FileHashed(t)
  \/ TEST_clearFileHashCache

PoolSpec == PoolInit /\ [][PoolNext]_vars

(* A thunk that holds a slot of the pool while it waits for a thunk that   *)
(* has not been started.                                                   *)
HeldWaiting(t) ==
  /\ _queue[t].at = "hashOf"
  /\ IF _queue[t].awaiting = Resolved THEN FALSE
     ELSE _queue[_queue[t].awaiting].at = "queued"

(* C33: work queued on the shared I/O pool always makes progress, also     *)
(* when a pool task queues further work on the same pool and waits for it: *)
(* the slots of the pool are never all held by tasks that wait for queued  *)
(* tasks.                                                                  *)
C33_PoolMakesProgress ==
  ~ /\ nActive(_queue) = maxN
    /\ \A t \in DOMAIN _queue :
         _queue[t].at \in {"tar", "hashOf", "lstat"} => HeldWaiting(t)

(* ================= DirectoryCache: stores, lookups, cleaner ============= *)
(* What a step of the directory cache leaves alone. *)
outsideDirectory == <<gvars, qvars, exitCode, pc, kvars, svars, hvars, mvars, wvars, evars, bvars, fvars, iovars, nvars, lvars, xvars>>

CacheHashes == 1..NumCacheHashes

NoJob == [at |-> "idle", tarballs |-> <<>>, sizes |-> <<>>, mtimes |-> <<>>,
          victims |-> <<>>, deleted |-> {}]

(* The entries an earlier run left: the tarball and the index, or nothing. *)
DirectoryInit ==
  /\ CachesIdle
  /\ MirrorIdle
  /\ BinLinksIdle
  /\ DependenciesIdle
  /\ PoolIdle
  /\ SidecarIdle
  /\ SandboxesIdle
  /\ EnvironmentIdle
  /\ WorkspaceIdle
  /\ maxSizeMB = TRUE
  /\ CleaningIdle
  /\ HoistIdle
  /\ MerkleIdle
  /\ \E present \in SUBSET CacheHashes :
       /\ dataFile = [h \in CacheHashes |-> IF h \in present THEN "complete" ELSE "absent"]
       /\ indexFile = [h \in CacheHashes |-> IF h \in present THEN "complete" ELSE "absent"]
       /\ \E m \in [CacheHashes -> 1..NumCacheHashes] :
            mtimeMs = [h \in CacheHashes |-> IF h \in present THEN m[h] ELSE 0]
  /\ fileSize \in [CacheHashes -> 1..MaxTarSize]
  /\ maxSizeBytes \in 1..(MaxTarSize + 1)
  /\ found = [h \in CacheHashes |-> "none"]
  /\ storing = [h \in CacheHashes |-> "idle"]
  /\ job = NoJob
  /\ lastJob = [NoJob EXCEPT !.at = "none"]
  /\ thrown = 0

(* DirectoryCache.lookup(pv): readJsonIfExists of the index file. *)
DirectoryCache_lookup(index) == IF index = "absent" THEN "miss" ELSE "hit"

DirLookup(h) ==
  /\ found[h] = "none"
  /\ found' = [found EXCEPT ![h] = DirectoryCache_lookup(indexFile[h])]
  /\ UNCHANGED <<outsideDirectory, ovars, dataFile, indexFile, mtimeMs, fileSize,
                 maxSizeBytes, storing, job, lastJob, thrown>>

(* DirectoryArtifact.fetch(targetDir): tar.x of the data file the artifact *)
(* was made with; it throws without a whole tarball.                       *)
DirectoryArtifact_fetch(data) == IF data = "complete" THEN "fetched" ELSE "fetchFailed"

DirFetch(h) ==
  /\ found[h] = "hit"
  /\ found' = [found EXCEPT ![h] = DirectoryArtifact_fetch(dataFile[h])]
  /\ UNCHANGED <<outsideDirectory, ovars, dataFile, indexFile, mtimeMs, fileSize,
                 maxSizeBytes, storing, job, lastJob, thrown>>

(* The present moment as a modification time: later than every file. *)
Now == 1 + CHOOSE m \in 0..(2 * NumCacheHashes) : 
             /\ \E h \in CacheHashes : mtimeMs[h] = m
             /\ \A h \in CacheHashes : mtimeMs[h] <= m

(* The thunk of queueForStoring(pv, files), for a package that was built   *)
(* after its lookup missed: tar.c creates the data file,                   *)
TarCreate(h) ==
  /\ found[h] = "miss" /\ storing[h] = "idle"
  /\ storing' = [storing EXCEPT ![h] = "tar"]
  /\ dataFile' = [dataFile EXCEPT ![h] = "partial"]
  /\ mtimeMs' = [mtimeMs EXCEPT ![h] = Now]
  /\ UNCHANGED <<outsideDirectory, ovars, indexFile, fileSize, maxSizeBytes,
                 found, job, lastJob, thrown>>

(* has written all of it (into a file that has no name any more when the   *)
(* cleaner has unlinked it),                                               *)
TarClose(h) ==
  /\ storing[h] = "tar"
  /\ storing' = [storing EXCEPT ![h] = "writeJson"]
  /\ dataFile' = [dataFile EXCEPT ![h] = IF @ = "absent" THEN @ ELSE "complete"]
  /\ UNCHANGED <<outsideDirectory, ovars, indexFile, mtimeMs, fileSize,
                 maxSizeBytes, found, job, lastJob, thrown>>

(* and then writeJson writes the index and cleanCache() asks for a         *)
(* cleanup, which starts the job unless one is running.                    *)
WriteIndex(h) ==
  /\ storing[h] = "writeJson"
  /\ storing' = [storing EXCEPT ![h] = "done"]
  /\ indexFile' = [indexFile EXCEPT ![h] = "complete"]
  /\ SetO(cleanCache(O))
  /\ job' = IF ~_running THEN [NoJob EXCEPT !.at = "allFilesRecursive"] ELSE job
  /\ UNCHANGED <<outsideDirectory, maxSizeMB, made, poolQueued, poolActive, ended,
                 dataFile, mtimeMs, fileSize, maxSizeBytes, found, lastJob, thrown>>

(* The sequences of the elements of S, each once. *)
Orders(S) ==
  {s \in [1..Cardinality(S) -> S] : \A i, j \in DOMAIN s : i # j => s[i] # s[j]}

(* tarballs.sort(newestFirst): the listing in an order in which no tarball *)
(* comes before a newer one.                                               *)
newestFirst(S, mt) ==
  {s \in Orders(S) : \A i, j \in DOMAIN s : i < j => mt[s[i]] >= mt[s[j]]}

(* The loop of cleanCache over the sorted tarballs from the i-th on, with  *)
(* the sum of the sizes before it: the tarballs it deletes, in order.      *)
RECURSIVE cleanLoop_Greater(_, _, _, _, _)
cleanLoop_Greater(tarballs, sizes, max, i, total) ==
  IF i > Len(tarballs) THEN <<>>
  ELSE LET sum == total + sizes[tarballs[i]]
       IN (IF sum > max THEN <<tarballs[i]>> ELSE <<>>)
            \o cleanLoop_Greater(tarballs, sizes, max, i + 1, sum)

RECURSIVE cleanLoop(_, _, _, _, _)
cleanLoop(tarballs, sizes, max, i, total) ==
  IF i > Len(tarballs) THEN <<>>
  ELSE LET sum == total + sizes[tarballs[i]]
       IN (IF sum >= max THEN <<tarballs[i]>> ELSE <<>>)
            \o cleanLoop(tarballs, sizes, max, i + 1, sum)

(* allFilesRecursive(directory) returns: the tarballs there are, with the  *)
(* sizes and times lstat gave, sorted.                                     *)
ListTarballs ==
  /\ job.at = "allFilesRecursive"
  /\ \E tarballs \in newestFirst({h \in CacheHashes : dataFile[h] # "absent"}, mtimeMs) :
       job' = [job EXCEPT !.at = "loop", !.tarballs = tarballs, !.sizes = fileSize,
                          !.mtimes = mtimeMs,
                          !.victims = cleanLoop(tarballs, fileSize, maxSizeBytes, 1, 0)]
  /\ UNCHANGED <<outsideDirectory, ovars, dataFile, indexFile, mtimeMs, fileSize,
                 maxSizeBytes, found, storing, lastJob, thrown>>

(* `await cb()` has returned or thrown (the error is logged): the loop of  *)
(* tryRun goes round.                                                      *)
jobEnds_NoCatch(o, ok) ==
  IF ok THEN loop(o) ELSE [o EXCEPT !.running = FALSE]

jobEnds(o, ok) == loop(o)

(* The job ends, and the next one starts at once when one was asked for. *)
EndJob(ok) ==
  /\ ended' = ended + 1
  /\ SetO(jobEnds(O, ok))
  /\ lastJob' = [job EXCEPT !.at = IF ok THEN "completed" ELSE "threw"]
  /\ thrown' = IF ok THEN thrown ELSE thrown + 1
  /\ job' = IF jobEnds(O, ok).started > started
              THEN [NoJob EXCEPT !.at = "allFilesRecursive"] ELSE NoJob
  /\ UNCHANGED <<maxSizeMB, made, poolQueued, poolActive>>

(* fs.unlink of the index of the next tarball to delete; it throws when    *)
(* there is no such file.                                                  *)
UnlinkIndex ==
  /\ job.at = "loop" /\ job.victims # <<>>
  /\ LET h == Head(job.victims)
     IN IF indexFile[h] = "absent"
          THEN /\ EndJob(FALSE)
               /\ UNCHANGED indexFile
          ELSE /\ indexFile' = [indexFile EXCEPT ![h] = "absent"]
               /\ job' = [job EXCEPT !.at = "unlinkData"]
               /\ UNCHANGED <<ovars, lastJob, thrown>>
  /\ UNCHANGED <<outsideDirectory, dataFile, mtimeMs, fileSize, maxSizeBytes,
                 found, storing>>

(* fs.unlink of the tarball itself. *)
UnlinkData ==
  /\ job.at = "unlinkData"
  /\ LET h == Head(job.victims)
     IN IF dataFile[h] = "absent"
          THEN /\ EndJob(FALSE)
               /\ UNCHANGED dataFile
          ELSE /\ dataFile' = [dataFile EXCEPT ![h] = "absent"]
               /\ job' = [job EXCEPT !.at = "loop", !.victims = Tail(@),
                                     !.deleted = @ \cup {h}]
               /\ UNCHANGED <<ovars, lastJob, thrown>>
  /\ UNCHANGED <<outsideDirectory, indexFile, mtimeMs, fileSize, maxSizeBytes,
                 found, storing>>

(* The loop has gone through the list. *)
CleanupDone ==
  /\ job.at = "loop" /\ job.victims = <<>>
  /\ EndJob(TRUE)
  /\ UNCHANGED <<outsideDirectory, dataFile, indexFile, mtimeMs, fileSize,
                 maxSizeBytes, found, storing>>

DirectoryNext ==
  \/ \E h \in CacheHashes : DirLookup(h)
  \/ \E h \in CacheHashes : DirFetch(h)
  \/ \E h \in CacheHashes : TarCreate(h)
  \/ \E h \in CacheHashes : TarClose(h)
  \/ \E h \in CacheHashes : WriteIndex(h)
  \/ ListTarballs
  \/ UnlinkIndex
  \/ UnlinkData
  \/ CleanupDone

DirectorySpec == DirectoryInit /\ [][DirectoryNext]_vars

(* C31: an index file for a hash never exists without the complete data    *)
(* tarball for that hash, under any interleaving of stores of distinct     *)
(* hashes and cleanups.                                                    *)
C31_IndexImpliesData ==
  \A h \in CacheHashes : indexFile[h] # "absent" => dataFile[h] = "complete"

(* C32: once lookup has returned an artifact for a hash, fetching that     *)
(* artifact succeeds, whatever cleanup runs between the two.               *)
C32_FetchAfterLookupSucceeds ==
  \A h \in CacheHashes : found[h] # "fetchFailed"

(* What a cleanup job listed, kept and deleted. *)
RECURSIVE SizeOf(_, _)
SizeOf(S, sizes) ==
  IF S = {} THEN 0
  ELSE LET h == CHOOSE x \in S : TRUE IN sizes[h] + SizeOf(S \ {h}, sizes)

Listed(j) == {j.tarballs[i] : i \in DOMAIN j.tarballs}

Retained(j) == Listed(j) \ j.deleted

(* The claim as it was made: nothing is deleted when the total is at most  *)
(* the budget, every deleted tarball is older than every retained one, and *)
(* the retained total is at most the budget.                               *)
C34_OldestFirstUntilWithinBudget ==
  lastJob.at = "completed" =>
    /\ SizeOf(Listed(lastJob), lastJob.sizes) <= maxSizeBytes => lastJob.deleted = {}
    /\ \A d \in lastJob.deleted : \A r \in Retained(lastJob) :
         lastJob.mtimes[d] < lastJob.mtimes[r]
    /\ SizeOf(Retained(lastJob), lastJob.sizes) <= maxSizeBytes

(* C34: a completed cache cleanup drops tarballs oldest-first and only     *)
(* until the total is below the budget: nothing is deleted when the total  *)
(* size of the tarballs it listed is below maxSizeMB * 10^6 bytes, no      *)
(* deleted tarball is newer than a retained one, the retained total is     *)
(* below the budget, and it would not be with the newest of the deleted    *)
(* tarballs.                                                               *)
C34_OldestFirstUntilBelowBudget ==
  lastJob.at = "completed" =>
    /\ SizeOf(Listed(lastJob), lastJob.sizes) < maxSizeBytes => lastJob.deleted = {}
    /\ \A d \in lastJob.deleted : \A r \in Retained(lastJob) :
         lastJob.mtimes[d] <= lastJob.mtimes[r]
    /\ SizeOf(Retained(lastJob), lastJob.sizes) < maxSizeBytes
    /\ lastJob.deleted # {} =>
         \E d \in lastJob.deleted :
           SizeOf(Retained(lastJob), lastJob.sizes) + lastJob.sizes[d] >= maxSizeBytes

C34_Witness ==
  /\ lastJob.at = "completed"
  /\ lastJob.deleted # {}
  /\ Retained(lastJob) # {}
  /\ SizeOf(Listed(lastJob), lastJob.sizes) = maxSizeBytes
  /\ \E d \in lastJob.deleted : \E r \in Retained(lastJob) :
       lastJob.mtimes[d] = lastJob.mtimes[r]

(* C35: a cleanup job that throws does not wedge the one-at-a-time guard:  *)
(* the guard is running exactly while a job runs; when a job throws, one   *)
(* more job is started if a request arrived while it ran, and the guard    *)
(* becomes idle otherwise; a request made while the guard is idle starts a *)
(* new job, also after a job has thrown.                                   *)
C35_ThrowingJobDoesNotWedge ==
  /\ [](_running <=> job.at # "idle")
  /\ [][/\ thrown' # thrown =>
             IF arrived > 0
               THEN started' = started + 1 /\ _running' /\ ~_queued'
               ELSE started' = started /\ ~_running'
        /\ (requested' # requested /\ ~_running) =>
             (started' = started + 1 /\ _running')]_vars

C35_Witness ==
  /\ thrown = 1
  /\ lastJob.at = "threw"
  /\ requested = 3
  /\ started = 3
  /\ ended = 2
  /\ job.at = "loop"

(* ======================= builds and their dependencies ================== *)
(* What a step of these builds leaves alone. *)
outsideDependencies == <<gvars, qvars, exitCode, pc, kvars, svars, ovars, hvars, mvars, wvars, evars, bvars, fvars, iovars, dvars, lvars, xvars>>

(* The hermetic packages of the monorepo; a package depends on packages    *)
(* with a higher number only, the dependency graph being acyclic.          *)
Builds == 1..NumBuilds

DependenciesInit ==
  /\ CachesIdle
  /\ MirrorIdle
  /\ BinLinksIdle
  /\ DirectoryIdle
  /\ PoolIdle
  /\ SidecarIdle
  /\ SandboxesIdle
  /\ EnvironmentIdle
  /\ WorkspaceIdle
  /\ maxSizeMB = TRUE
  /\ CleaningIdle
  /\ HoistIdle
  /\ MerkleIdle
  /\ depInputs \in [Builds -> SUBSET Builds]
  /\ \A p \in Builds : \A d \in depInputs[p] : d > p
  /\ cacheHit \in [Builds -> BOOLEAN]
  /\ buildAt = [p \in Builds |-> "unstarted"]
  /\ realized = [p \in Builds |-> "no"]

(* The dependencies of a package, and theirs, and so on. *)
RECURSIVE transitiveDeps(_, _)
transitiveDeps(ins, p) ==
  ins[p] \cup UNION {transitiveDeps(ins, d) : d \in ins[p]}

(* cachedPromise(this, artifactsCacheSymbol, ...): build() of each of the  *)
(* packages is started unless it was started before.                       *)
build(at, ps) ==
  [p \in Builds |-> IF p \in ps /\ at[p] = "unstarted" THEN "cacheLookup" ELSE at[p]]

(* ensureDependenciesBuilt(): the builds it awaits, those of the inputs    *)
(* that are hermetic monorepo packages.                                    *)
ensureDependenciesBuilt_None(p) == {}

ensureDependenciesBuilt(p) == depInputs[p]

(* installDependencies(): files(), hence build(), of every package of the  *)
(* dependency tree.                                                        *)
installDependencies(p) == transitiveDeps(depInputs, p)

(* The builds a package waits for where it is. *)
Awaited(p) ==
  CASE buildAt[p] = "ensureDependenciesBuilt" -> ensureDependenciesBuilt(p)
    [] buildAt[p] = "doBuild" -> installDependencies(p)
    [] OTHER -> {}

(* build() is called for a package by the build queue. *)
StartBuild(p) ==
  /\ buildAt[p] = "unstarted"
  /\ buildAt' = build(buildAt, {p})
  /\ UNCHANGED <<outsideDependencies, depInputs, cacheHit, realized>>

(* `await this.cacheLookup()` returns: on a hit the dependencies are seen  *)
(* to, on a miss the package is built in a sandbox, into which its         *)
(* dependencies are installed.                                             *)
CacheLookupDone(p) ==
  /\ buildAt[p] = "cacheLookup"
  /\ LET at == [buildAt EXCEPT ![p] = IF cacheHit[p] THEN "ensureDependenciesBuilt"
                                      ELSE "doBuild"]
     IN buildAt' = build(at, IF cacheHit[p] THEN ensureDependenciesBuilt(p)
                             ELSE installDependencies(p))
  /\ UNCHANGED <<outsideDependencies, depInputs, cacheHit, realized>>

(* Promise.all of the builds of the dependencies resolves, and the         *)
(* package's own artifact is fetched.                                      *)
CachedFetch(p) ==
  /\ buildAt[p] = "ensureDependenciesBuilt"
  /\ \A d \in Awaited(p) : buildAt[d] = "resolved"
  /\ buildAt' = [buildAt EXCEPT ![p] = "fetch"]
  /\ UNCHANGED <<outsideDependencies, depInputs, cacheHit, realized>>

(* cached.fetch() returns or throws. *)
CachedFetchDone(p, ok) ==
  /\ buildAt[p] = "fetch"
  /\ buildAt' = [buildAt EXCEPT ![p] = IF ok THEN "resolved" ELSE "rejected"]
  /\ realized' = [realized EXCEPT ![p] = IF ok THEN "fetched" ELSE @]
  /\ UNCHANGED <<outsideDependencies, depInputs, cacheHit>>

(* The dependencies are installed, and the build command succeeds or       *)
(* fails.                                                                  *)
BuildInSandbox(p, ok) ==
  /\ buildAt[p] = "doBuild"
  /\ \A d \in Awaited(p) : buildAt[d] = "resolved"
  /\ buildAt' = [buildAt EXCEPT ![p] = IF ok THEN "resolved" ELSE "rejected"]
  /\ realized' = [realized EXCEPT ![p] = IF ok THEN "built" ELSE @]
  /\ UNCHANGED <<outsideDependencies, depInputs, cacheHit>>

(* The build of a dependency has failed: the package's build fails too. *)
DependencyRejected(p) ==
  /\ \E d \in Awaited(p) : buildAt[d] = "rejected"
  /\ buildAt' = [buildAt EXCEPT ![p] = "rejected"]
  /\ UNCHANGED <<outsideDependencies, depInputs, cacheHit, realized>>

DependenciesNext ==
  \/ \E p \in Builds : StartBuild(p)
  \/ \E p \in Builds : CacheLookupDone(p)
  \/ \E p \in Builds : CachedFetch(p)
  \/ \E p \in Builds : \E ok \in BOOLEAN : CachedFetchDone(p, ok)
  \/ \E p \in Builds : \E ok \in BOOLEAN : BuildInSandbox(p, ok)
  \/ \E p \in Builds : DependencyRejected(p)

DependenciesSpec == DependenciesInit /\ [][DependenciesNext]_vars

outsideBinLinks == <<gvars, qvars, exitCode, pc, kvars, svars, ovars, hvars, mvars, wvars, evars, bvars, fvars, iovars, dvars, nvars, xvars>>

(* The packages of the dependency tree that have an executable; the target *)
(* of an install is the package's own file, named by its number.           *)
Installs == 1..NumInstalls
BinNames == {"tsc", "jest"}
NoLink == 0

BinLinksInit ==
  /\ CachesIdle
  /\ MirrorIdle
  /\ DependenciesIdle
  /\ DirectoryIdle
  /\ PoolIdle
  /\ SidecarIdle
  /\ SandboxesIdle
  /\ EnvironmentIdle
  /\ WorkspaceIdle
  /\ maxSizeMB = TRUE
  /\ CleaningIdle
  /\ HoistIdle
  /\ MerkleIdle
  /\ binDir = [n \in BinNames |-> NoLink]
  /\ binName \in [Installs -> BinNames]
  /\ installAt = [i \in Installs |-> "installInto"]
  /\ installError = [i \in Installs |-> "none"]

(* fs.symlink(target, filePath): EEXIST when there is such a file. *)
symlink(dir, absTarget, name) ==
  IF dir[name] # NoLink THEN [dir |-> dir, error |-> "EEXIST"]
  ELSE [dir |-> [dir EXCEPT ![name] = absTarget], error |-> "none"]

(* fs.unlink(filePath): ENOENT when there is no such file. *)
unlink(dir, name) ==
  IF dir[name] = NoLink THEN [dir |-> dir, error |-> "ENOENT"]
  ELSE [dir |-> [dir EXCEPT ![name] = NoLink], error |-> "none"]

(* installInto() has added the package's files and comes, through          *)
(* installBinLinks() and installExecutable(), to ensureSymlink(), which    *)
(* makes the directory.                                                    *)
InstallExecutable(i) ==
  /\ installAt[i] = "installInto"
  /\ installAt' = [installAt EXCEPT ![i] = "symlink"]
  /\ UNCHANGED <<outsideBinLinks, binDir, binName, installError>>

(* ensureSymlink(): the first fs.symlink, inside the try. *)
ensureSymlink(r) ==
  IF r.error = "none" THEN [at |-> "done", error |-> "none"]
  ELSE IF r.error # "EEXIST" THEN [at |-> "failed", error |-> r.error]
  ELSE [at |-> "unlink", error |-> "none"]

Symlink(i) ==
  /\ installAt[i] = "symlink"
  /\ LET r == symlink(binDir, i, binName[i])
     IN /\ binDir' = r.dir
        /\ installAt' = [installAt EXCEPT ![i] = ensureSymlink(r).at]
        /\ installError' = [installError EXCEPT ![i] = ensureSymlink(r).error]
  /\ UNCHANGED <<outsideBinLinks, binName>>

(* The fs.unlink in the catch block; its error leaves ensureSymlink() and  *)
(* is thrown again by installExecutable().                                 *)
Unlink(i) ==
  /\ installAt[i] = "unlink"
  /\ LET r == unlink(binDir, binName[i])
     IN /\ binDir' = r.dir
        /\ installAt' = [installAt EXCEPT ![i] =
                           IF r.error = "none" THEN "symlinkAgain" ELSE "failed"]
        /\ installError' = [installError EXCEPT ![i] = r.error]
  /\ UNCHANGED <<outsideBinLinks, binName>>

(* The second fs.symlink, in the catch block. *)
SymlinkAgain(i) ==
  /\ installAt[i] = "symlinkAgain"
  /\ LET r == symlink(binDir, i, binName[i])
     IN /\ binDir' = r.dir
        /\ installAt' = [installAt EXCEPT ![i] =
                           IF r.error = "none" THEN "done" ELSE "failed"]
        /\ installError' = [installError EXCEPT ![i] = r.error]
  /\ UNCHANGED <<outsideBinLinks, binName>>

BinLinksNext ==
  \/ \E i \in Installs : InstallExecutable(i)
  \/ \E i \in Installs : Symlink(i)
  \/ \E i \in Installs : Unlink(i)
  \/ \E i \in Installs : SymlinkAgain(i)

BinLinksSpec == BinLinksInit /\ [][BinLinksNext]_vars

(* C38: concurrent installs of the same executable name into the bin       *)
(* directory of one sandbox all complete without error, for any number of  *)
(* packages that provide the name, and afterwards bin/<name> is a symlink  *)
(* to one of the requested targets.                                        *)
C38_ConcurrentInstallsSucceed ==
  /\ \A i \in Installs : installAt[i] # "failed"
  /\ (\A i \in Installs : installAt[i] = "done") =>
       \A i \in Installs :
         /\ binDir[binName[i]] # NoLink
         /\ binName[binDir[binName[i]]] = binName[i]

(* ====================== S3Cache: the mirrored index ==================== *)
(* What a step of the mirror leaves alone. *)
outsideMirror == <<gvars, qvars, exitCode, pc, kvars, ovars, hvars, mvars, wvars, evars, bvars, fvars, iovars, dvars, nvars, lvars>>

(* The index object that queueForStoring() put on S3 for a locator. *)
remoteIndex(loc) == [artifactHash |-> loc, artifacts |-> "files of " \o loc]

S3IndexFileSchemas == {remoteIndex(loc) : loc \in LeafHashes}

(* JSON.stringify of an index object, in the pieces the body arrives in. *)
stringifyIndex(obj) ==
  <<"{", "artifactHash: " \o obj.artifactHash, "artifacts: " \o obj.artifacts, "}">>

(* JSON.parse(text) of an index file *)
parseIndex(text) ==
  IF \E obj \in S3IndexFileSchemas : stringifyIndex(obj) = text
    THEN CHOOSE obj \in S3IndexFileSchemas : stringifyIndex(obj) = text
    ELSE SyntaxError

(* readJsonIfExists(localIndexPath) *)
readIndexIfExists(file) == IF file = <<>> THEN NoFile ELSE parseIndex(file[1])

NoLookup == [at |-> "none", loc |-> "none", result |-> "none"]

(* The index directory holds what earlier runs mirrored completely; the    *)
(* listing of the bucket names every locator.                              *)
MirrorInit ==
  /\ CommandIdle
  /\ BinLinksIdle
  /\ DependenciesIdle
  /\ DirectoryIdle
  /\ PoolIdle
  /\ SidecarIdle
  /\ SandboxesIdle
  /\ EnvironmentIdle
  /\ HoistIdle
  /\ WorkspaceIdle
  /\ MerkleIdle
  /\ maxSizeMB = TRUE
  /\ CleaningIdle
  /\ artifactCache = "null"
  /\ PackagesIdle
  /\ CleanCheckout
  /\ S3Constructed
  /\ localIndexFile \in [LeafHashes -> {<<>>}] \cup
       {[loc \in LeafHashes |-> IF loc \in S THEN <<stringifyIndex(remoteIndex(loc))>> ELSE <<>>] :
          S \in SUBSET LeafHashes}
  /\ mirror = [loc \in LeafHashes |-> "listed"]
  /\ indexLookup = [c \in CallIds |-> NoLookup]

(* exists(s): whether lstat finds the file, whatever is in it. *)
exists(file) == file # <<>>

(* startS3IndexScan(): a listed index file is downloaded when there is no  *)
(* local file of that name.                                                *)
Exists(loc) ==
  /\ scan = "running" /\ mirror[loc] = "listed"
  /\ mirror' = [mirror EXCEPT ![loc] =
       IF exists(localIndexFile[loc]) THEN "skipped" ELSE "createWriteStream"]
  /\ UNCHANGED <<outsideMirror, svars, localIndexFile, indexLookup>>

(* downloadRemoteIndexFile(loc): createWriteStream opens the local index   *)
(* path itself for writing, which makes an empty file of that name; then   *)
(* getObject is sent.                                                      *)
createWriteStream(file) == <<<<>>>>

CreateWriteStream(loc) ==
  /\ scan = "running" /\ mirror[loc] = "createWriteStream"
  /\ localIndexFile' = [localIndexFile EXCEPT ![loc] = createWriteStream(@)]
  /\ mirror' = [mirror EXCEPT ![loc] = "getObject"]
  /\ UNCHANGED <<outsideMirror, svars, indexLookup>>

(* getObject answers and the body is piped to the file; a rejected         *)
(* getObject is thrown inside the async executor, the promise stays        *)
(* unsettled and the file stays empty.                                     *)
GetObject(loc, ok) ==
  /\ scan = "running" /\ mirror[loc] = "getObject"
  /\ mirror' = [mirror EXCEPT ![loc] = IF ok THEN "pipe" ELSE "stuck"]
  /\ UNCHANGED <<outsideMirror, svars, localIndexFile, indexLookup>>

(* The stream writes the next piece of the body; after the last one the    *)
(* stream finishes. An error of the stream rejects the download, which     *)
(* ends the scan in its catch block and opens the read breaker.            *)
Pipe(loc, ok) ==
  /\ scan = "running" /\ mirror[loc] = "pipe"
  /\ LET body == stringifyIndex(remoteIndex(loc))
         written == localIndexFile[loc][1]
         next == Append(written, body[Len(written) + 1])
     IN IF ok
        THEN /\ localIndexFile' = [localIndexFile EXCEPT ![loc] = <<next>>]
             /\ mirror' = [mirror EXCEPT ![loc] = IF next = body THEN "finish" ELSE "pipe"]
             /\ UNCHANGED svars
        ELSE /\ mirror' = [mirror EXCEPT ![loc] = "error"]
             /\ scan' = "failed"
             /\ _enabled' = FALSE
             /\ UNCHANGED <<localIndexFile, _writeEnabled, calls>>
  /\ UNCHANGED <<outsideMirror, indexLookup>>

(* Every listed file is mirrored or was there: the scan ends. *)
ScanEnds ==
  /\ scan = "running"
  /\ \A loc \in LeafHashes : mirror[loc] \in {"skipped", "finish"}
  /\ scan' = "done"
  /\ UNCHANGED <<outsideMirror, _enabled, _writeEnabled, calls, xvars>>

(* lookup(loc) up to its first await. *)
MirrorLookup(c, loc) ==
  /\ indexLookup[c].at = "none"
  /\ indexLookup' = [indexLookup EXCEPT ![c] =
       IF ~_enabled THEN [at |-> "done", loc |-> loc, result |-> "undefined"]
       ELSE [at |-> "readJsonIfExists", loc |-> loc, result |-> "pending"]]
  /\ UNCHANGED <<outsideMirror, svars, localIndexFile, mirror>>

(* readJsonIfExists(localIndexPath) returns an index, of which lookup()    *)
(* makes an S3Artifact; or undefined, and lookup() goes on to ask the      *)
(* bucket; or throws what JSON.parse threw, which leaves lookup().         *)
lookupLocal(file) ==
  LET localIndex == readIndexIfExists(file)
  IN CASE localIndex = NoFile -> "remoteContains"
       [] localIndex = SyntaxError -> "rejected"
       [] OTHER -> "S3Artifact"

ReadMirror(c) ==
  /\ indexLookup[c].at = "readJsonIfExists"
  /\ indexLookup' = [indexLookup EXCEPT ![c] =
       [at |-> "done", loc |-> indexLookup[c].loc,
        result |-> lookupLocal(localIndexFile[indexLookup[c].loc])]]
  /\ UNCHANGED <<outsideMirror, svars, localIndexFile, mirror>>

(* The caller is done with a finished lookup. *)
LookupReturned(c) ==
  /\ indexLookup[c].at = "done"
  /\ indexLookup' = [indexLookup EXCEPT ![c] = NoLookup]
  /\ UNCHANGED <<outsideMirror, svars, localIndexFile, mirror>>

MirrorNext ==
  \/ \E loc \in LeafHashes : Exists(loc)
  \/ \E loc \in LeafHashes : CreateWriteStream(loc)
  \/ \E loc \in LeafHashes : \E ok \in BOOLEAN : GetObject(loc, ok)
  \/ \E loc \in LeafHashes : \E ok \in BOOLEAN : Pipe(loc, ok)
  \/ ScanEnds
  \/ \E c \in CallIds : \E loc \in LeafHashes : MirrorLookup(c, loc)
  \/ \E c \in CallIds : ReadMirror(c)
  \/ \E c \in CallIds : LookupReturned(c)

MirrorSpec == MirrorInit /\ [][MirrorNext]_vars

(* C37: a lookup of the remote tier that runs while the index scan is      *)
(* still mirroring index files sees a complete local index entry or none:  *)
(* it never reads a partially written or empty mirrored index file and     *)
(* never fails because of one.                                             *)
C37_LookupSeesWholeIndexOrNone ==
  /\ \A c \in CallIds : indexLookup[c].result # "rejected"
  /\ \A c \in CallIds :
       indexLookup[c].at = "readJsonIfExists" /\ scan = "running" =>
         localIndexFile[indexLookup[c].loc] \in
           {<<>>, <<stringifyIndex(remoteIndex(indexLookup[c].loc))>>}

(* ============ hoistDependencies: useless entries, termination ========== *)
(* The node objects in the subtree of n: n and everything below it. *)
subtree(h, n) == {Head(chain) : chain \in placesFrom(h, <<n>>)}

(* The entry was declared, at the version of the object stored, by n or by *)
(* a package in the subtree of n.                                          *)
Useful(h, declared, n, e) ==
  \E d \in subtree(h, n) : <<e.name, h[e.node].version>> \in declared[d]

(* C39: after hoistDependencies no node holds a package that nothing in    *)
(* its subtree depends on: every entry (name, child) left in the           *)
(* dependencies of a node n was originally required at the version of      *)
(* child by n itself or by a package that is still in the subtree below n. *)
C39_NoUselessEntries ==
  hoistPc = "done" =>
    \A n \in subtree(packageTree, RootNode) :
      packageTree[n].defined =>
        \A i \in DOMAIN packageTree[n].dependencies :
          Useful(packageTree, recordOriginalDependencies(naiveTree), n,
                 packageTree[n].dependencies[i])

(* The depth of a tree: the length of its longest path of names. *)
depth(h) == CHOOSE d \in 0..Len(h) :
              /\ \A l \in renderTree(h) : Len(l[1]) <= d
              /\ d = 0 \/ \E l \in renderTree(h) : Len(l[1]) = d

(* The statements hoistDependencies has before it, the passes of the loop  *)
(* counted as many as the tree is deep.                                    *)
stepsLeft ==
  (depth(naiveTree) - passes) +
    (CASE hoistPc = "recordOriginalDependencies" -> 4
       [] hoistPc = "moveUp" -> 3
       [] hoistPc = "removeDupes" -> 2
       [] hoistPc = "removeUseless" -> 1
       [] hoistPc = "done" -> 0)

(* C40: hoistDependencies terminates on every finite acyclic input tree:   *)
(* the move-up phase reaches, after finitely many passes, a pass in which  *)
(* nothing changes, and both cleanup passes finish. The loop runs at most  *)
(* as many passes as the input tree is deep, it is left only after a pass  *)
(* that changed nothing, and every step of the function brings its end     *)
(* nearer.                                                                 *)
C40_Terminates ==
  /\ [](passes <= depth(naiveTree))
  /\ [](hoistPc \in {"removeDupes", "removeUseless", "done"} => ~didChange)
  /\ [][stepsLeft' < stepsLeft]_vars

(* A package that was three levels below the root's entries has been moved *)
(* to the root, one level in each pass.                                    *)
C40_Witness ==
  /\ hoistPc = "done"
  /\ passes = 4
  /\ \E l \in renderTree(naiveTree) :
       /\ Len(l[1]) = 4
       /\ <<<<l[1][4]>>, l[2]>> \in renderTree(packageTree)

====
